---- MODULE Spec2Model ----
(***************************************************************************)
(* A model of the Wasm binary parser of wasm-transform (parse.rs): the     *)
(* byte cursor and its primitive decoders, the skeleton parser            *)
(* (parse_skeleton), the per-section decoders and parse_module.            *)
(*                                                                         *)
(* A cursor is a pair (b, p): the borrowed byte range b and the position p *)
(* (the number of bytes consumed).  Every decoder is an operator taking    *)
(* (b, p) and returning a result record                                    *)
(*     [ok |-> TRUE,  pos |-> p', val |-> v,    err |-> "none"]   or       *)
(*     [ok |-> FALSE, pos |-> p', val |-> <<>>, err |-> message]           *)
(* where p' is the cursor position the decoder leaves behind.              *)
(***************************************************************************)
EXTENDS Integers, Sequences, FiniteSets, TLC

VARIABLES
    input,          \* the byte array handed to parse_skeleton
    pos,            \* cursor.position() of parse_skeleton's cursor
    pc,             \* where the pipeline stands
    last_section,   \* parse_skeleton's last_section
    skel,           \* the eleven Option<UnparsedSection> slots
    custom,         \* Skeleton::custom
    frames,         \* history: the sections in the order the scan met them
    err,            \* the error the pipeline ended with, "none" otherwise
    out,            \* the Module returned by parse_module (<<>> before)
    unit            \* one decoder, the bytes it is applied to, and its result

vars == <<input, pos, pc, last_section, skel, custom, frames, err, out, unit>>

(***************************************************************************)
(* Core constants                                                          *)
(***************************************************************************)
MAX_PREALLOCATED_BYTES == 1000
MAGIC_HASH == <<0, 97, 115, 109>>       \* 00 61 73 6D
VERSION == <<1, 0, 0, 0>>
END == 11                               \* 0x0B

Ok(p, v) == [ok |-> TRUE, pos |-> p, val |-> v, err |-> "none"]
Err(p, e) == [ok |-> FALSE, pos |-> p, val |-> <<>>, err |-> e]

\* Option<T>: None is the empty sequence, Some(x) the one-element sequence.
None == <<>>
Some(x) == <<x>>

(***************************************************************************)
(* Byte and LEB128 decoding                                                *)
(***************************************************************************)
\* impl Parseable for Byte: read_exact of one byte.
Byte_parse(b, p) ==
    IF p < Len(b) THEN Ok(p + 1, b[p + 1]) ELSE Err(p, "UnexpectedEof")

\* leb128::read over cursor.take(limit): the 7-bit groups, least significant
\* first, of the encoding at p; running out of input or of the limit before a
\* byte without the continuation bit is an error.
RECURSIVE leb128_read(_, _, _, _)
leb128_read(b, p, limit, groups) ==
    IF limit = 0 \/ p >= Len(b)
    THEN Err(p, "UnexpectedEof")
    ELSE LET x == b[p + 1]
         IN  IF x < 128
             THEN Ok(p + 1, Append(groups, x))
             ELSE leb128_read(b, p + 1, limit - 1, Append(groups, x - 128))

\* Group i of an encoding, 0 when the encoding is shorter.
Group(g, i) == IF i <= Len(g) THEN g[i] ELSE 0

\* The low 28 bits that four groups carry.
Low28(g) ==
    Group(g, 1) + 128 * Group(g, 2) + 16384 * Group(g, 3) + 2097152 * Group(g, 4)

\* A u32 is kept as [lo |-> bits 0..27, hi |-> bits 28..31]: the model
\* checker's integers are narrower than u32.
U32(n) == [lo |-> n, hi |-> 0]

\* `x as usize` for a comparison with, or a count over, an input shorter than
\* 2^28 bytes: exact below 2^28, and 2^28 (a lower bound) from there on.
as_usize(v) == IF v.hi = 0 THEN v.lo ELSE 2^28

\* cursor.next(): A::parse(cursor) for the type named A.  It is defined after
\* the decoders it dispatches to.
RECURSIVE parse(_, _, _)
RECURSIVE Vec_elems(_, _, _, _, _)
RECURSIVE decode_instruction(_, _, _)
RECURSIVE decode_terminated_sequence(_, _, _)
RECURSIVE decode_then_branch(_, _, _, _)

\* u32_parse with the bits beyond the 32nd dropped.
u32_parse_truncating(b, p) ==
    LET res == leb128_read(b, p, 5, <<>>)
    IN  IF ~res.ok THEN res
        ELSE Ok(res.pos, [lo |-> Low28(res.val), hi |-> Group(res.val, 5) % 16])

\* impl Parseable for u32: at most 5 bytes, then u32::try_from.
u32_parse(b, p) ==
    LET res == leb128_read(b, p, 5, <<>>)
    IN  IF ~res.ok THEN res
        ELSE IF Group(res.val, 5) > 15 THEN Err(res.pos, "TryFromIntError")
        ELSE Ok(res.pos, [lo |-> Low28(res.val), hi |-> Group(res.val, 5)])

\* impl Parseable for u64: at most 10 bytes; the tenth byte carries bit 63
\* alone and must be 0x00 or 0x01.  The value is kept as [w0 |-> bits 0..27,
\* w1 |-> bits 28..55, w2 |-> bits 56..63].
u64_parse(b, p) ==
    LET res == leb128_read(b, p, 10, <<>>)
    IN  IF ~res.ok THEN res
        ELSE IF Len(res.val) = 10 /\ res.val[10] \notin {0, 1}
             THEN Err(res.pos, "Overflow")
        ELSE Ok(res.pos, [w0 |-> Low28(res.val),
                          w1 |-> Low28(SubSeq(res.val, 5, Len(res.val))),
                          w2 |-> Group(res.val, 9) + 128 * Group(res.val, 10)])

\* impl Parseable for SectionId.
SectionId_parse(b, p) ==
    LET buf == Byte_parse(b, p)
    IN  IF ~buf.ok THEN buf
        ELSE IF buf.val \in 0..11 THEN buf
        ELSE Err(buf.pos, "Unknown section id")

\* bytes_parse with the view one byte shorter than what the cursor passed.
bytes_parse_short(b, p) ==
    LET len == parse("u32", b, p)
        end == len.pos + as_usize(len.val)
    IN  IF ~len.ok THEN len
        ELSE IF ~(end <= Len(b)) THEN Err(len.pos, "Malformed byte array")
        ELSE IF end = len.pos THEN Ok(end, [off |-> len.pos, len |-> 0])
        ELSE Ok(end, [off |-> len.pos, len |-> end - len.pos - 1])

\* bytes_parse without the seek over the bytes of the view.
bytes_parse_no_seek(b, p) ==
    LET len == parse("u32", b, p)
        end == len.pos + as_usize(len.val)
    IN  IF ~len.ok THEN len
        ELSE IF ~(end <= Len(b)) THEN Err(len.pos, "Malformed byte array")
        ELSE Ok(len.pos, [off |-> len.pos, len |-> end - len.pos])

\* bytes_parse without the ensure on the end of the view.
bytes_parse_unchecked(b, p) ==
    LET len == parse("u32", b, p)
        end == len.pos + as_usize(len.val)
    IN  IF ~len.ok THEN len
        ELSE Ok(end, [off |-> len.pos, len |-> end - len.pos])

\* impl Parseable for &[u8]: the length, then a view of that many bytes.  The
\* view is [off |-> first byte's offset, len |-> number of bytes].
bytes_parse(b, p) ==
    LET len == parse("u32", b, p)
        end == len.pos + as_usize(len.val)
    IN  IF ~len.ok THEN len
        ELSE IF ~(end <= Len(b)) THEN Err(len.pos, "Malformed byte array")
        ELSE Ok(end, [off |-> len.pos, len |-> end - len.pos])

\* The bytes a view stands for.
Slice(b, v) == SubSeq(b, v.off + 1, v.off + v.len)

\* impl Parseable for UnparsedSection.
UnparsedSection_parse(b, p) ==
    LET section_id == parse("SectionId", b, p)
        bytes == parse("bytes", b, section_id.pos)
    IN  IF ~section_id.ok THEN section_id
        ELSE IF ~bytes.ok THEN bytes
        ELSE Ok(bytes.pos, [section_id |-> section_id.val,
                            off |-> bytes.val.off, len |-> bytes.val.len])

(***************************************************************************)
(* Signed LEB128                                                           *)
(***************************************************************************)
\* The groups of a signed encoding extended to n groups with its sign.
SignExt(g, n) ==
    [i \in 1..n |-> IF i <= Len(g) THEN g[i]
                    ELSE IF g[Len(g)] >= 64 THEN 127 ELSE 0]

\* impl Parseable for i32: at most 5 bytes, sign extension, i32::try_from.
\* The value is kept in two's complement as [lo |-> bits 0..27, hi |-> 28..31].
i32_parse(b, p) ==
    LET res == leb128_read(b, p, 5, <<>>)
        e == SignExt(res.val, 5)
    IN  IF ~res.ok THEN res
        ELSE IF (e[5] \div 8) \notin {0, 15} THEN Err(res.pos, "TryFromIntError")
        ELSE Ok(res.pos, [lo |-> Low28(e), hi |-> e[5] % 16])

\* impl Parseable for i64: at most 10 bytes; the tenth byte carries bit 63
\* alone and must be 0x00 or 0x7f.  The value is kept in two's complement as
\* [w0 |-> bits 0..27, w1 |-> bits 28..55, w2 |-> bits 56..63].
i64_parse(b, p) ==
    LET res == leb128_read(b, p, 10, <<>>)
        e == SignExt(res.val, 10)
    IN  IF ~res.ok THEN res
        ELSE IF Len(res.val) = 10 /\ res.val[10] \notin {0, 127}
             THEN Err(res.pos, "Overflow")
        ELSE Ok(res.pos, [w0 |-> Low28(e), w1 |-> Low28(SubSeq(e, 5, 8)),
                          w2 |-> e[9] + 128 * (e[10] % 2)])

(***************************************************************************)
(* Names: a byte vector that std::str::from_utf8 accepts                   *)
(***************************************************************************)
IsCont(s, i) == i <= Len(s) /\ s[i] \in 128..191

RECURSIVE from_utf8(_, _)
from_utf8(s, i) ==
    IF i > Len(s) THEN TRUE
    ELSE LET x == s[i]
         IN  IF x < 128 THEN from_utf8(s, i + 1)
             ELSE IF x \in 194..223
                  THEN IsCont(s, i + 1) /\ from_utf8(s, i + 2)
             ELSE IF x \in 224..239
                  THEN /\ IsCont(s, i + 1) /\ IsCont(s, i + 2)
                       /\ (x = 224 => s[i + 1] >= 160)
                       /\ (x = 237 => s[i + 1] <= 159)
                       /\ from_utf8(s, i + 3)
             ELSE IF x \in 240..244
                  THEN /\ IsCont(s, i + 1) /\ IsCont(s, i + 2) /\ IsCont(s, i + 3)
                       /\ (x = 240 => s[i + 1] >= 144)
                       /\ (x = 244 => s[i + 1] <= 143)
                       /\ from_utf8(s, i + 4)
             ELSE FALSE

\* impl Parseable for Name.
Name_parse(b, p) ==
    LET name_bytes == parse("bytes", b, p)
    IN  IF ~name_bytes.ok THEN name_bytes
        ELSE IF ~from_utf8(Slice(b, name_bytes.val), 1)
             THEN Err(name_bytes.pos, "Utf8Error")
        ELSE Ok(name_bytes.pos, [name |-> Slice(b, name_bytes.val)])

(***************************************************************************)
(* Types                                                                   *)
(***************************************************************************)

\* impl Parseable for Vec<A>: the length as a u32, then that many elements.
Vec_parse(A, b, p) ==
    LET len == parse("u32", b, p)
    IN  IF ~len.ok THEN len
        ELSE Vec_elems(A, b, len.pos, as_usize(len.val), <<>>)

\* std::cmp::min and std::cmp::max.
cmp_min(x, y) == IF x <= y THEN x ELSE y
cmp_max(x, y) == IF x >= y THEN x ELSE y

\* Vec<A>::parse: the most elements of size_of_A bytes reserved up front.
max_initial_capacity(size_of_A) == MAX_PREALLOCATED_BYTES \div cmp_max(1, size_of_A)

\* Vec_with_capacity reserving the declared length.
Vec_with_capacity_uncapped(len, size_of_A) ==
    IF ~len.ok THEN len ELSE Ok(len.pos, as_usize(len.val))

\* Vec<A>::parse up to Vec::with_capacity: len is the result of u32::parse,
\* the value is the number of elements reserved.
Vec_with_capacity(len, size_of_A) ==
    IF ~len.ok THEN len
    ELSE Ok(len.pos,
            cmp_min(as_usize(len.val), max_initial_capacity(size_of_A)))

\* ValueType_parse with the tag 0x7D of f32 taken for a value type.
ValueType_parse_f32(b, p) ==
    LET x == Byte_parse(b, p)
    IN  IF ~x.ok THEN x
        ELSE IF x.val = 127 THEN Ok(x.pos, "I32")
        ELSE IF x.val = 126 THEN Ok(x.pos, "I64")
        ELSE IF x.val = 125 THEN Ok(x.pos, "F32")
        ELSE Err(x.pos, "Unsupported value type")

\* impl Parseable for ValueType.
ValueType_parse(b, p) ==
    LET x == Byte_parse(b, p)
    IN  IF ~x.ok THEN x
        ELSE IF x.val = 127 THEN Ok(x.pos, "I32")
        ELSE IF x.val = 126 THEN Ok(x.pos, "I64")
        ELSE Err(x.pos, "Unsupported value type")

\* impl Parseable for Limits.
Limits_parse(b, p) ==
    LET tag == Byte_parse(b, p)
        min == parse("u32", b, tag.pos)
        max == parse("u32", b, min.pos)
    IN  IF ~tag.ok THEN tag
        ELSE IF tag.val = 0
             THEN IF ~min.ok THEN min
                  ELSE Ok(min.pos, [min |-> min.val, max |-> None])
        ELSE IF tag.val = 1
             THEN IF ~min.ok THEN min
                  ELSE IF ~max.ok THEN max
                  ELSE Ok(max.pos, [min |-> min.val, max |-> Some(max.val)])
        ELSE Err(tag.pos, "Incorrect limits tag")

\* expect_byte: read one byte and compare it with the given one.
expect_byte(b, p, byte) ==
    LET x == Byte_parse(b, p)
    IN  IF ~x.ok THEN x
        ELSE IF x.val = byte THEN Ok(x.pos, <<>>)
        ELSE Err(x.pos, "Unexpected byte")

\* Vec::first().copied()
first(v) == IF v = <<>> THEN None ELSE Some(v[1])

\* FunctionType_parse with the bound on the results off by one.
FunctionType_parse_two_results(b, p) ==
    LET tag == expect_byte(b, p, 96)
        parameters == Vec_parse("ValueType", b, tag.pos)
        result_vec == Vec_parse("ValueType", b, parameters.pos)
    IN  IF ~tag.ok THEN tag
        ELSE IF ~parameters.ok THEN parameters
        ELSE IF ~result_vec.ok THEN result_vec
        ELSE IF ~(Len(result_vec.val) <= 2)
             THEN Err(result_vec.pos, "Only single return value is supported.")
        ELSE Ok(result_vec.pos, [parameters |-> parameters.val,
                                 result |-> first(result_vec.val)])

\* impl Parseable for FunctionType.
FunctionType_parse(b, p) ==
    LET tag == expect_byte(b, p, 96)
        parameters == Vec_parse("ValueType", b, tag.pos)
        result_vec == Vec_parse("ValueType", b, parameters.pos)
    IN  IF ~tag.ok THEN tag
        ELSE IF ~parameters.ok THEN parameters
        ELSE IF ~result_vec.ok THEN result_vec
        ELSE IF ~(Len(result_vec.val) <= 1)
             THEN Err(result_vec.pos, "Only single return value is supported.")
        ELSE Ok(result_vec.pos, [parameters |-> parameters.val,
                                 result |-> first(result_vec.val)])

\* impl Parseable for GlobalType.
GlobalType_parse(b, p) ==
    LET ty == parse("ValueType", b, p)
        flag == Byte_parse(b, ty.pos)
    IN  IF ~ty.ok THEN ty
        ELSE IF ~flag.ok THEN flag
        ELSE IF flag.val = 0 THEN Ok(flag.pos, [ty |-> ty.val, mutable |-> FALSE])
        ELSE IF flag.val = 1 THEN Ok(flag.pos, [ty |-> ty.val, mutable |-> TRUE])
        ELSE Err(flag.pos, "Unsupported mutability flag")

\* impl Parseable for TableType: the funcref tag 0x70, then the limits.
TableType_parse(b, p) ==
    LET tag == expect_byte(b, p, 112)
        limits == parse("Limits", b, tag.pos)
    IN  IF ~tag.ok THEN tag
        ELSE IF ~limits.ok THEN limits
        ELSE Ok(limits.pos, [limits |-> limits.val])

\* impl Parseable for MemoryType.
MemoryType_parse(b, p) ==
    LET limits == parse("Limits", b, p)
    IN  IF ~limits.ok THEN limits
        ELSE Ok(limits.pos, [limits |-> limits.val])

\* impl Parseable for BlockType.
BlockType_parse(b, p) ==
    LET x == Byte_parse(b, p)
    IN  IF ~x.ok THEN x
        ELSE IF x.val = 64 THEN Ok(x.pos, "EmptyType")
        ELSE IF x.val = 127 THEN Ok(x.pos, "I32")
        ELSE IF x.val = 126 THEN Ok(x.pos, "I64")
        ELSE Err(x.pos, "Unsupported block type")

\* impl Parseable for MemArg.
MemArg_parse(b, p) ==
    LET offset == parse("u32", b, p)
        align == parse("u32", b, offset.pos)
    IN  IF ~offset.ok THEN offset
        ELSE IF ~align.ok THEN align
        ELSE Ok(align.pos, [offset |-> offset.val, align |-> align.val])

\* impl Parseable for Local.
Local_parse(b, p) ==
    LET multiplicity == parse("u32", b, p)
        ty == parse("ValueType", b, multiplicity.pos)
    IN  IF ~multiplicity.ok THEN multiplicity
        ELSE IF ~ty.ok THEN ty
        ELSE Ok(ty.pos, [multiplicity |-> multiplicity.val, ty |-> ty.val])

\* impl Parseable for Expression.
Expression_parse(b, p) ==
    LET instrs == decode_terminated_sequence(b, p, <<>>)
    IN  IF ~instrs.ok THEN instrs
        ELSE Ok(instrs.pos, [instrs |-> instrs.val])

(***************************************************************************)
(* Section entries                                                         *)
(***************************************************************************)
\* impl Parseable for ImportDescription.
ImportDescription_parse(b, p) ==
    LET tag == Byte_parse(b, p)
        type_idx == parse("u32", b, tag.pos)
        table_type == parse("TableType", b, tag.pos)
        memory_type == parse("MemoryType", b, tag.pos)
        global_type == parse("GlobalType", b, tag.pos)
    IN  IF ~tag.ok THEN tag
        ELSE IF tag.val = 0
             THEN IF ~type_idx.ok THEN type_idx
                  ELSE Ok(type_idx.pos, [tag |-> "Func", type_idx |-> type_idx.val])
        ELSE IF tag.val = 1
             THEN IF ~table_type.ok THEN table_type
                  ELSE Ok(table_type.pos, [tag |-> "Table", table_type |-> table_type.val])
        ELSE IF tag.val = 2
             THEN IF ~memory_type.ok THEN memory_type
                  ELSE Ok(memory_type.pos, [tag |-> "Memory", memory_type |-> memory_type.val])
        ELSE IF tag.val = 3
             THEN IF ~global_type.ok THEN global_type
                  ELSE Ok(global_type.pos, [tag |-> "Global", global_type |-> global_type.val])
        ELSE Err(tag.pos, "Unexpected import description tag")

\* impl Parseable for Import.
Import_parse(b, p) ==
    LET mod_name == parse("Name", b, p)
        item_name == parse("Name", b, mod_name.pos)
        description == parse("ImportDescription", b, item_name.pos)
    IN  IF ~mod_name.ok THEN mod_name
        ELSE IF ~item_name.ok THEN item_name
        ELSE IF ~description.ok THEN description
        ELSE Ok(description.pos, [mod_name |-> mod_name.val,
                                  item_name |-> item_name.val,
                                  description |-> description.val])

\* impl Parseable for ExportDescription.
ExportDescription_parse(b, p) ==
    LET tag == Byte_parse(b, p)
        index == parse("u32", b, tag.pos)
    IN  IF ~tag.ok THEN tag
        ELSE IF tag.val \notin 0..3 THEN Err(tag.pos, "Unsupported export tag")
        ELSE IF ~index.ok THEN index
        ELSE IF tag.val = 0 THEN Ok(index.pos, [tag |-> "Func", index |-> index.val])
        ELSE IF tag.val = 1
             THEN IF index.val = U32(0) THEN Ok(index.pos, [tag |-> "Table"])
                  ELSE Err(index.pos, "Only table with index 0 is supported.")
        ELSE IF tag.val = 2
             THEN IF index.val = U32(0) THEN Ok(index.pos, [tag |-> "Memory"])
                  ELSE Err(index.pos, "Only memory with index 0 is supported.")
        ELSE Ok(index.pos, [tag |-> "Global", index |-> index.val])

\* impl Parseable for Export.
Export_parse(b, p) ==
    LET name == parse("Name", b, p)
        description == parse("ExportDescription", b, name.pos)
    IN  IF ~name.ok THEN name
        ELSE IF ~description.ok THEN description
        ELSE Ok(description.pos, [name |-> name.val, description |-> description.val])

\* Element_parse with the ensure on the table index behind the offset.
Element_parse_checks_late(b, p) ==
    LET table_index == parse("u32", b, p)
        offset == parse("Expression", b, table_index.pos)
        inits == Vec_parse("u32", b, offset.pos)
    IN  IF ~table_index.ok THEN table_index
        ELSE IF ~offset.ok THEN offset
        ELSE IF ~(table_index.val = U32(0))
             THEN Err(offset.pos, "Only table index 0 is supported.")
        ELSE IF ~inits.ok THEN inits
        ELSE Ok(inits.pos, [offset |-> offset.val, inits |-> inits.val])

\* impl Parseable for Element.
Element_parse(b, p) ==
    LET table_index == parse("u32", b, p)
        offset == parse("Expression", b, table_index.pos)
        inits == Vec_parse("u32", b, offset.pos)
    IN  IF ~table_index.ok THEN table_index
        ELSE IF ~(table_index.val = U32(0))
             THEN Err(table_index.pos, "Only table index 0 is supported.")
        ELSE IF ~offset.ok THEN offset
        ELSE IF ~inits.ok THEN inits
        ELSE Ok(inits.pos, [offset |-> offset.val, inits |-> inits.val])

\* impl Parseable for Global.
Global_parse(b, p) ==
    LET ty == parse("GlobalType", b, p)
        init == parse("Expression", b, ty.pos)
    IN  IF ~ty.ok THEN ty
        ELSE IF ~init.ok THEN init
        ELSE Ok(init.pos, [ty |-> ty.val, init |-> init.val])

\* Code_parse accepting a body shorter than the declared size.
Code_parse_at_most(b, p) ==
    LET size == parse("u32", b, p)
        cur_pos == size.pos
        locals == Vec_parse("Local", b, cur_pos)
        expr == parse("Expression", b, locals.pos)
        end_pos == expr.pos
    IN  IF ~size.ok THEN size
        ELSE IF ~locals.ok THEN locals
        ELSE IF ~expr.ok THEN expr
        ELSE IF ~(end_pos - cur_pos <= as_usize(size.val))
             THEN Err(end_pos, "Declared size must match actual size.")
        ELSE Ok(end_pos, [locals |-> locals.val, expr |-> expr.val])

\* impl Parseable for Code.
Code_parse(b, p) ==
    LET size == parse("u32", b, p)
        cur_pos == size.pos
        locals == Vec_parse("Local", b, cur_pos)
        expr == parse("Expression", b, locals.pos)
        end_pos == expr.pos
    IN  IF ~size.ok THEN size
        ELSE IF ~locals.ok THEN locals
        ELSE IF ~expr.ok THEN expr
        ELSE IF ~(end_pos - cur_pos = as_usize(size.val))
             THEN Err(end_pos, "Declared size must match actual size.")
        ELSE Ok(end_pos, [locals |-> locals.val, expr |-> expr.val])

\* impl Parseable for Data.
Data_parse(b, p) ==
    LET index == parse("u32", b, p)
        offset == parse("Expression", b, index.pos)
        init == Vec_parse("Byte", b, offset.pos)
    IN  IF ~index.ok THEN index
        ELSE IF ~(index.val = U32(0))
             THEN Err(index.pos, "Only memory index 0 is supported.")
        ELSE IF ~offset.ok THEN offset
        ELSE IF ~init.ok THEN init
        ELSE Ok(init.pos, [offset |-> offset.val, init |-> init.val])

(***************************************************************************)
(* Sections                                                                *)
(***************************************************************************)
\* A section that is one vector: TypeSection, ImportSection, FunctionSection,
\* GlobalSection, ExportSection, ElementSection, CodeSection, DataSection.
VecSection_parse(A, field, b, p) ==
    LET v == Vec_parse(A, b, p)
    IN  IF ~v.ok THEN v ELSE Ok(v.pos, [f \in {field} |-> v.val])

\* TableSection_parse with the bound on the entries off by one.
TableSection_parse_two(b, p) ==
    LET table_type_vec == Vec_parse("TableType", b, p)
    IN  IF ~table_type_vec.ok THEN table_type_vec
        ELSE IF ~(Len(table_type_vec.val) <= 2)
             THEN Err(table_type_vec.pos, "Only table with index 0 is supported.")
        ELSE Ok(table_type_vec.pos, [table_type |-> first(table_type_vec.val)])

\* impl Parseable for TableSection.
TableSection_parse(b, p) ==
    LET table_type_vec == Vec_parse("TableType", b, p)
    IN  IF ~table_type_vec.ok THEN table_type_vec
        ELSE IF ~(Len(table_type_vec.val) <= 1)
             THEN Err(table_type_vec.pos, "Only table with index 0 is supported.")
        ELSE Ok(table_type_vec.pos, [table_type |-> first(table_type_vec.val)])

\* impl Parseable for MemorySection.
MemorySection_parse(b, p) ==
    LET memory_types_vec == Vec_parse("MemoryType", b, p)
    IN  IF ~memory_types_vec.ok THEN memory_types_vec
        ELSE IF ~(Len(memory_types_vec.val) <= 1)
             THEN Err(memory_types_vec.pos, "Only memory with index 1 is supported.")
        ELSE Ok(memory_types_vec.pos, [memory_type |-> first(memory_types_vec.val)])

\* impl Parseable for StartSection: a vector of function indices that is
\* ensured to be non-empty; the section decoded carries nothing.
StartSection_parse(b, p) ==
    LET idxs == Vec_parse("u32", b, p)
    IN  IF ~idxs.ok THEN idxs
        ELSE IF ~(idxs.val # <<>>)
             THEN Err(idxs.pos, "Start functions are not supported.")
        ELSE Ok(idxs.pos, [section |-> "StartSection"])

(***************************************************************************)
(* Instructions                                                            *)
(***************************************************************************)
\* An instruction is [op |-> opcode, imm |-> immediates, then_branch |-> the
\* nested sequence of a Block, Loop or If, else_branch |-> the If's else].
Instr(op, imm, seq, else_branch) ==
    [op |-> op, imm |-> imm, then_branch |-> seq, else_branch |-> else_branch]

\* PlainOps with the comparisons running one opcode too far, into f32.eq.
PlainOps_with_f32_eq ==
    {0, 1, 15, 26, 27} \cup (69..91) \cup (103..138) \cup {167, 172, 173}

\* Opcodes decoded without an immediate.
PlainOps ==
    {0, 1, 15, 26, 27} \cup (69..90) \cup (103..138) \cup {167, 172, 173}
\* Opcodes followed by one u32 index: br, br_if, call, local.*, global.*.
IndexOps == {12, 13, 16} \cup (32..36)
\* Loads and stores, followed by a MemArg.
MemArgOps == {40, 41} \cup (44..55) \cup (58..62)
\* Every opcode decode_instruction has an arm for.
SupportedOps ==
    PlainOps \cup IndexOps \cup MemArgOps \cup {2, 3, 4, 14, 17, 63, 64, 65, 66}

decode_instruction(op, b, p) ==
    IF op \in PlainOps THEN Ok(p, Instr(op, <<>>, <<>>, <<>>))
    ELSE IF op \in {2, 3}
    THEN LET bt == parse("BlockType", b, p)
             seq == decode_terminated_sequence(b, bt.pos, <<>>)
         IN  IF ~bt.ok THEN bt
             ELSE IF ~seq.ok THEN seq
             ELSE Ok(seq.pos, Instr(op, <<bt.val>>, seq.val, <<>>))
    ELSE IF op = 4
    THEN LET ty == parse("BlockType", b, p)
         IN  IF ~ty.ok THEN ty
             ELSE decode_then_branch(b, ty.pos, ty.val, <<>>)
    ELSE IF op \in IndexOps
    THEN LET idx == parse("u32", b, p)
         IN  IF ~idx.ok THEN idx
             ELSE Ok(idx.pos, Instr(op, <<idx.val>>, <<>>, <<>>))
    ELSE IF op = 14
    THEN LET labels == Vec_parse("u32", b, p)
             default == parse("u32", b, labels.pos)
         IN  IF ~labels.ok THEN labels
             ELSE IF ~default.ok THEN default
             ELSE Ok(default.pos, Instr(op, <<labels.val, default.val>>, <<>>, <<>>))
    ELSE IF op = 17
    THEN LET ty == parse("u32", b, p)
             zero == expect_byte(b, ty.pos, 0)
         IN  IF ~ty.ok THEN ty
             ELSE IF ~zero.ok THEN zero
             ELSE Ok(zero.pos, Instr(op, <<ty.val>>, <<>>, <<>>))
    ELSE IF op \in MemArgOps
    THEN LET memarg == parse("MemArg", b, p)
         IN  IF ~memarg.ok THEN memarg
             ELSE Ok(memarg.pos, Instr(op, <<memarg.val>>, <<>>, <<>>))
    ELSE IF op \in {63, 64}
    THEN LET zero == expect_byte(b, p, 0)
         IN  IF ~zero.ok THEN zero
             ELSE Ok(zero.pos, Instr(op, <<>>, <<>>, <<>>))
    ELSE IF op = 65
    THEN LET n == parse("i32", b, p)
         IN  IF ~n.ok THEN n
             ELSE Ok(n.pos, Instr(op, <<n.val>>, <<>>, <<>>))
    ELSE IF op = 66
    THEN LET n == parse("i64", b, p)
         IN  IF ~n.ok THEN n
             ELSE Ok(n.pos, Instr(op, <<n.val>>, <<>>, <<>>))
    ELSE Err(p, "Unsupported instruction")

\* decode_then_branch with the else marker taken for the END of the If.
RECURSIVE decode_then_branch_no_else(_, _, _, _)
decode_then_branch_no_else(b, p, ty, then_branch) ==
    LET byte == Byte_parse(b, p)
        inst == decode_instruction(byte.val, b, byte.pos)
    IN  IF ~byte.ok THEN byte
        ELSE IF byte.val \in {END, 5}
             THEN Ok(byte.pos, Instr(4, <<ty>>, then_branch, <<>>))
        ELSE IF ~inst.ok THEN inst
        ELSE decode_then_branch_no_else(b, inst.pos, ty,
                                        Append(then_branch, inst.val))

\* The loop of the 0x04 arm: the then-branch up to END or to the else marker.
decode_then_branch(b, p, ty, then_branch) ==
    LET byte == Byte_parse(b, p)
        else_branch == decode_terminated_sequence(b, byte.pos, <<>>)
        inst == decode_instruction(byte.val, b, byte.pos)
    IN  IF ~byte.ok THEN byte
        ELSE IF byte.val = END
             THEN Ok(byte.pos, Instr(4, <<ty>>, then_branch, <<>>))
        ELSE IF byte.val = 5
             THEN IF ~else_branch.ok THEN else_branch
                  ELSE Ok(else_branch.pos,
                          Instr(4, <<ty>>, then_branch, else_branch.val))
        ELSE IF ~inst.ok THEN inst
        ELSE decode_then_branch(b, inst.pos, ty, Append(then_branch, inst.val))

\* decode_terminated_sequence: instructions up to the END byte.
decode_terminated_sequence(b, p, instrs) ==
    LET byte == Byte_parse(b, p)
        inst == decode_instruction(byte.val, b, byte.pos)
    IN  IF ~byte.ok THEN byte
        ELSE IF byte.val = END THEN Ok(byte.pos, instrs)
        ELSE IF ~inst.ok THEN inst
        ELSE decode_terminated_sequence(b, inst.pos, Append(instrs, inst.val))

(***************************************************************************)
(* The generic decoders                                                    *)
(***************************************************************************)
parse(A, b, p) ==
    CASE A = "Byte" -> Byte_parse(b, p)
      [] A = "u32" -> u32_parse(b, p)
      [] A = "i32" -> i32_parse(b, p)
      [] A = "i64" -> i64_parse(b, p)
      [] A = "u64" -> u64_parse(b, p)
      [] A = "SectionId" -> SectionId_parse(b, p)
      [] A = "bytes" -> bytes_parse(b, p)
      [] A = "UnparsedSection" -> UnparsedSection_parse(b, p)
      [] A = "Name" -> Name_parse(b, p)
      [] A = "ValueType" -> ValueType_parse(b, p)
      [] A = "BlockType" -> BlockType_parse(b, p)
      [] A = "Limits" -> Limits_parse(b, p)
      [] A = "FunctionType" -> FunctionType_parse(b, p)
      [] A = "GlobalType" -> GlobalType_parse(b, p)
      [] A = "TableType" -> TableType_parse(b, p)
      [] A = "MemoryType" -> MemoryType_parse(b, p)
      [] A = "MemArg" -> MemArg_parse(b, p)
      [] A = "Local" -> Local_parse(b, p)
      [] A = "Expression" -> Expression_parse(b, p)
      [] A = "ImportDescription" -> ImportDescription_parse(b, p)
      [] A = "Import" -> Import_parse(b, p)
      [] A = "ExportDescription" -> ExportDescription_parse(b, p)
      [] A = "Export" -> Export_parse(b, p)
      [] A = "Element" -> Element_parse(b, p)
      [] A = "Global" -> Global_parse(b, p)
      [] A = "Code" -> Code_parse(b, p)
      [] A = "Data" -> Data_parse(b, p)
      [] A = "TypeSection" -> VecSection_parse("FunctionType", "types", b, p)
      [] A = "ImportSection" -> VecSection_parse("Import", "imports", b, p)
      [] A = "FunctionSection" -> VecSection_parse("u32", "types", b, p)
      [] A = "TableSection" -> TableSection_parse(b, p)
      [] A = "MemorySection" -> MemorySection_parse(b, p)
      [] A = "GlobalSection" -> VecSection_parse("Global", "globals", b, p)
      [] A = "ExportSection" -> VecSection_parse("Export", "exports", b, p)
      [] A = "StartSection" -> StartSection_parse(b, p)
      [] A = "ElementSection" -> VecSection_parse("Element", "elements", b, p)
      [] A = "CodeSection" -> VecSection_parse("Code", "impls", b, p)
      [] A = "DataSection" -> VecSection_parse("Data", "sections", b, p)

\* The loop of Vec<A>::parse: n more elements, pushed onto out.
Vec_elems(A, b, p, n, out_vec) ==
    LET elem == parse(A, b, p)
    IN  IF n = 0 THEN Ok(p, out_vec)
        ELSE IF ~elem.ok THEN elem
        ELSE Vec_elems(A, b, elem.pos, n - 1, Append(out_vec, elem.val))

\* ensure_consumed without the comparison of the position with the length.
ensure_consumed_unchecked(res, len) == res

\* ensure!(cursor.position() == self.len(), ..) on the result of A::parse.
ensure_consumed(res, len) ==
    IF ~res.ok THEN res
    ELSE IF ~(res.pos = len)
         THEN Err(res.pos, "Not all of the contents was consumed.")
    ELSE res

\* impl GetParseable for &[u8]: a cursor of its own over the bytes, and all
\* of them must be consumed.
next(A, bytes) == ensure_consumed(parse(A, bytes, 0), Len(bytes))

(***************************************************************************)
(* parse_module                                                            *)
(***************************************************************************)
\* The Skeleton field a section kind is stored in, and the type it decodes to.
Slots ==
    <<"ty", "import", "func", "table", "memory", "global", "export", "start",
      "element", "code", "data">>
SectionTypes ==
    <<"TypeSection", "ImportSection", "FunctionSection", "TableSection",
      "MemorySection", "GlobalSection", "ExportSection", "StartSection",
      "ElementSection", "CodeSection", "DataSection">>

\* Default::default() of a section type: the section with nothing in it.
Default(A) ==
    CASE A = "TypeSection" -> [types |-> <<>>]
      [] A = "ImportSection" -> [imports |-> <<>>]
      [] A = "FunctionSection" -> [types |-> <<>>]
      [] A = "TableSection" -> [table_type |-> None]
      [] A = "MemorySection" -> [memory_type |-> None]
      [] A = "GlobalSection" -> [globals |-> <<>>]
      [] A = "ExportSection" -> [exports |-> <<>>]
      [] A = "StartSection" -> [section |-> "StartSection"]
      [] A = "ElementSection" -> [elements |-> <<>>]
      [] A = "CodeSection" -> [impls |-> <<>>]
      [] A = "DataSection" -> [sections |-> <<>>]

\* parse_sec_with_default with the default also for a section that fails.
parse_sec_with_default_lenient(A, b, sec) ==
    IF sec = None THEN Ok(0, Default(A))
    ELSE IF ~parse(A, Slice(b, sec[1]), 0).ok THEN Ok(0, Default(A))
    ELSE next(A, Slice(b, sec[1]))

\* parse_sec_with_default: sec is an Option of a section carved from b.
parse_sec_with_default(A, b, sec) ==
    IF sec = None THEN Ok(0, Default(A)) ELSE next(A, Slice(b, sec[1]))

\* parse_module: the eleven sections in the order of the source, the first
\* error ends the call (the ? after each).  k is the section about to be
\* decoded, module the sections decoded so far.
RECURSIVE parse_module_from(_, _, _, _)
parse_module_from(b, skeleton, k, module) ==
    LET sec == parse_sec_with_default(SectionTypes[k], b, skeleton[Slots[k]])
    IN  IF k > 11 THEN Ok(0, module)
        ELSE IF ~sec.ok THEN sec
        ELSE parse_module_from(b, skeleton, k + 1,
                               [module EXCEPT ![Slots[k]] = sec.val])

parse_module(b, skeleton) ==
    parse_module_from(b, skeleton, 1, [s \in {Slots[k] : k \in 1..11} |-> None])

(***************************************************************************)
(* The inputs                                                              *)
(***************************************************************************)
MaxBody == 6        \* bytes after the header, every string over BodyBytes
MaxFrames == 3      \* sections of an input built from whole sections
MaxEntries == 2     \* entries of a Table or Memory section
MaxDepth == 2       \* blocks around the opcode under decoding
MaxTypes == 2       \* parameters, and results, of a function type

Header == MAGIC_HASH \o VERSION

RECURSIVE Concat(_)
Concat(ss) == IF ss = <<>> THEN <<>> ELSE Head(ss) \o Concat(Tail(ss))

\* Every sequence of at most n elements of S.
SeqsUpTo(S, n) == UNION {[1..k -> S] : k \in 0..n}

\* Section kinds 0, 1 and 3, which are also the lengths 0, 1 and 3, and the
\* continuation byte 0x80 of a padded or overlong length.
BodyBytes == {0, 1, 3, 128}
Bodies == SeqsUpTo(BodyBytes, MaxBody)

\* Headers that are cut short, or wrong in one byte.
BadHeaders ==
    {SubSeq(Header, 1, n) : n \in 0..7}
    \cup ({[Header EXCEPT ![i] = x] : i \in 1..8, x \in {0, 1, 109}} \ {Header})

\* A section on the wire: kind, length (one byte: below 128), content.
Frame(kind, content) == <<kind, Len(content)>> \o content

SkeletonInputs ==
    {Header \o body : body \in Bodies}
    \cup {h \o body : h \in BadHeaders, body \in {<<>>, <<1, 0>>}}

\* Whole sections of the kinds Custom, Function, Start and Code in any order;
\* the contents are nothing, an empty vector, and a vector of one index.
SectionFrames ==
    {Frame(kind, content) : kind \in {0, 3, 8, 10},
                            content \in {<<>>, <<0>>, <<1, 0>>}}
SectionInputs ==
    {Header \o Concat(fs) : fs \in SeqsUpTo(SectionFrames, MaxFrames)}

\* Limits on the wire, without and with a maximum.
LimitsBytes == {<<0, 1>>, <<1, 1, 2>>}

\* A Table (4) or a Memory (5) section of n entries, n up to MaxEntries.
TableMemoryInputs ==
    {Header \o Frame(4, <<Len(es)>> \o Concat([i \in DOMAIN es |-> <<112>> \o es[i]]))
        : es \in SeqsUpTo(LimitsBytes, MaxEntries)}
    \cup {Header \o Frame(5, <<Len(es)>> \o Concat(es))
        : es \in SeqsUpTo(LimitsBytes, MaxEntries)}

Inputs == SkeletonInputs \cup SectionInputs \cup TableMemoryInputs

(***************************************************************************)
(* The pipeline: parse_skeleton, then parse_module on its Skeleton         *)
(***************************************************************************)
EmptySkeleton == [s \in {Slots[k] : k \in 1..11} |-> None]

\* No decoder under test: the value of unit all through the pipeline.
NoUnit ==
    [family |-> "none", A |-> "none", bytes |-> <<>>, at |-> 0, done |-> FALSE,
     res |-> Err(0, "none")]

Init ==
    /\ input \in Inputs
    /\ pos = 0
    /\ pc = "magic"
    /\ last_section = 0
    /\ skel = EmptySkeleton
    /\ custom = <<>>
    /\ frames = <<>>
    /\ err = "none"
    /\ out = <<>>
    /\ unit = NoUnit

\* parse_skeleton returns the error e with the cursor at p.
Fail(e, p) ==
    /\ pc' = "skeleton_err"
    /\ err' = e
    /\ pos' = p
    /\ UNCHANGED <<input, last_section, skel, custom, out, unit>>

\* CheckMagic with only the first three bytes compared.
CheckMagic_three_bytes ==
    /\ pc = "magic"
    /\ IF Len(input) - pos < 4
       THEN \E p \in {pos, Len(input)} : Fail("UnexpectedEof", p)
       ELSE IF SubSeq(input, pos + 1, pos + 3) # SubSeq(MAGIC_HASH, 1, 3)
       THEN Fail("Unknown magic hash", pos + 4)
       ELSE /\ pc' = "version"
            /\ pos' = pos + 4
            /\ UNCHANGED <<input, last_section, skel, custom, err, out, unit>>
    /\ frames' = frames

\* parse_skeleton: read four bytes and ensure the magic hash.  A read_exact
\* that finds fewer than four bytes fails, and the position it leaves is
\* unspecified between where it stood and the end of the input.
CheckMagic ==
    /\ pc = "magic"
    /\ IF Len(input) - pos < 4
       THEN \E p \in {pos, Len(input)} : Fail("UnexpectedEof", p)
       ELSE IF SubSeq(input, pos + 1, pos + 4) # MAGIC_HASH
       THEN Fail("Unknown magic hash", pos + 4)
       ELSE /\ pc' = "version"
            /\ pos' = pos + 4
            /\ UNCHANGED <<input, last_section, skel, custom, err, out, unit>>
    /\ frames' = frames

\* parse_skeleton: read four bytes and ensure the version.
CheckVersion ==
    /\ pc = "version"
    /\ IF Len(input) - pos < 4
       THEN \E p \in {pos, Len(input)} : Fail("UnexpectedEof", p)
       ELSE IF SubSeq(input, pos + 1, pos + 4) # VERSION
       THEN Fail("Unsupported version.", pos + 4)
       ELSE /\ pc' = "scan"
            /\ pos' = pos + 4
            /\ UNCHANGED <<input, last_section, skel, custom, err, out, unit>>
    /\ frames' = frames

\* ScanStep with the ordering test weakened: a kind equal to the last passes.
ScanStep_accepts_equal(r) ==
    IF ~r.ok THEN Fail(r.err, r.pos) /\ frames' = frames
    ELSE IF ~(r.val.section_id = 0 \/ r.val.section_id >= last_section)
    THEN /\ Fail("Section out of place.", r.pos)
         /\ frames' = Append(frames, [start |-> pos, section |-> r.val])
    ELSE /\ pos' = r.pos
         /\ last_section' =
                IF r.val.section_id # 0 THEN r.val.section_id ELSE last_section
         /\ IF r.val.section_id = 0
            THEN /\ custom' = Append(custom, r.val)
                 /\ skel' = skel
            ELSE /\ skel' = [skel EXCEPT ![Slots[r.val.section_id]] = Some(r.val)]
                 /\ custom' = custom
         /\ frames' = Append(frames, [start |-> pos, section |-> r.val])
         /\ UNCHANGED <<input, pc, err, out, unit>>

\* ScanStep with the Custom sections not kept.
ScanStep_drops_custom(r) ==
    IF ~r.ok THEN Fail(r.err, r.pos) /\ frames' = frames
    ELSE IF ~(r.val.section_id = 0 \/ r.val.section_id > last_section)
    THEN /\ Fail("Section out of place.", r.pos)
         /\ frames' = Append(frames, [start |-> pos, section |-> r.val])
    ELSE /\ pos' = r.pos
         /\ last_section' =
                IF r.val.section_id # 0 THEN r.val.section_id ELSE last_section
         /\ IF r.val.section_id = 0
            THEN /\ custom' = custom
                 /\ skel' = skel
            ELSE /\ skel' = [skel EXCEPT ![Slots[r.val.section_id]] = Some(r.val)]
                 /\ custom' = custom
         /\ frames' = Append(frames, [start |-> pos, section |-> r.val])
         /\ UNCHANGED <<input, pc, err, out, unit>>

\* ScanStep with a look at the first content byte of the section: 0xFF is
\* refused.
ScanStep_prepends_custom(r) ==
    IF ~r.ok THEN Fail(r.err, r.pos) /\ frames' = frames
    ELSE IF ~(r.val.section_id = 0 \/ r.val.section_id > last_section)
    THEN /\ Fail("Section out of place.", r.pos)
         /\ frames' = Append(frames, [start |-> pos, section |-> r.val])
    ELSE /\ pos' = r.pos
         /\ last_section' =
                IF r.val.section_id # 0 THEN r.val.section_id ELSE last_section
         /\ IF r.val.section_id = 0
            THEN /\ custom' = <<r.val>> \o custom
                 /\ skel' = skel
            ELSE /\ skel' = [skel EXCEPT ![Slots[r.val.section_id]] = Some(r.val)]
                 /\ custom' = custom
         /\ frames' = Append(frames, [start |-> pos, section |-> r.val])
         /\ UNCHANGED <<input, pc, err, out, unit>>

ScanStep_stays(r) ==
    IF ~r.ok THEN Fail(r.err, r.pos) /\ frames' = frames
    ELSE IF ~(r.val.section_id = 0 \/ r.val.section_id > last_section)
    THEN /\ Fail("Section out of place.", r.pos)
         /\ frames' = Append(frames, [start |-> pos, section |-> r.val])
    ELSE /\ pos' = pos
         /\ last_section' =
                IF r.val.section_id # 0 THEN r.val.section_id ELSE last_section
         /\ IF r.val.section_id = 0
            THEN /\ custom' = Append(custom, r.val)
                 /\ skel' = skel
            ELSE /\ skel' = [skel EXCEPT ![Slots[r.val.section_id]] = Some(r.val)]
                 /\ custom' = custom
         /\ frames' = Append(frames, [start |-> pos, section |-> r.val])
         /\ UNCHANGED <<input, pc, err, out, unit>>

ScanStep_reads_content(r) ==
    IF r.ok /\ r.val.len > 0 /\ input[r.val.off + 1] = 255
    THEN Fail("Malformed section", r.pos) /\ frames' = frames
    ELSE
         IF ~r.ok THEN Fail(r.err, r.pos) /\ frames' = frames
         ELSE IF ~(r.val.section_id = 0 \/ r.val.section_id > last_section)
         THEN /\ Fail("Section out of place.", r.pos)
              /\ frames' = Append(frames, [start |-> pos, section |-> r.val])
         ELSE /\ pos' = r.pos
              /\ last_section' =
                     IF r.val.section_id # 0 THEN r.val.section_id ELSE last_section
              /\ IF r.val.section_id = 0
                 THEN /\ custom' = Append(custom, r.val)
                      /\ skel' = skel
                 ELSE /\ skel' = [skel EXCEPT ![Slots[r.val.section_id]] = Some(r.val)]
                      /\ custom' = custom
              /\ frames' = Append(frames, [start |-> pos, section |-> r.val])
              /\ UNCHANGED <<input, pc, err, out, unit>>

\* parse_skeleton: the body of the loop, on the result r of
\* UnparsedSection::parse(cursor).  frames is a history of the sections the
\* cursor has produced, each with the offset its kind byte stands at.
ScanStep(r) ==
    IF ~r.ok THEN Fail(r.err, r.pos) /\ frames' = frames
    ELSE IF ~(r.val.section_id = 0 \/ r.val.section_id > last_section)
    THEN /\ Fail("Section out of place.", r.pos)
         /\ frames' = Append(frames, [start |-> pos, section |-> r.val])
    ELSE /\ pos' = r.pos
         /\ last_section' =
                IF r.val.section_id # 0 THEN r.val.section_id ELSE last_section
         /\ IF r.val.section_id = 0
            THEN /\ custom' = Append(custom, r.val)
                 /\ skel' = skel
            ELSE /\ skel' = [skel EXCEPT ![Slots[r.val.section_id]] = Some(r.val)]
                 /\ custom' = custom
         /\ frames' = Append(frames, [start |-> pos, section |-> r.val])
         /\ UNCHANGED <<input, pc, err, out, unit>>

\* parse_skeleton: one iteration of the loop over the sections.
ScanSection ==
    /\ pc = "scan"
    /\ pos < Len(input)
    /\ \E r \in {parse("UnparsedSection", input, pos)} : ScanStep(r)

\* parse_skeleton: the loop is over; ensure all input was read and return.
ReturnSkeleton ==
    /\ pc = "scan"
    /\ ~(pos < Len(input))
    /\ IF pos # Len(input)
       THEN Fail("Leftover bytes.", pos)
       ELSE /\ pc' = "skeleton_ok"
            /\ UNCHANGED <<input, pos, last_section, skel, custom, err, out, unit>>
    /\ frames' = frames

\* The caller's step on the result r of parse_module.
ModuleStep(r) ==
    IF ~r.ok
    THEN /\ pc' = "module_err"
         /\ err' = r.err
         /\ out' = out
    ELSE /\ pc' = "module_ok"
         /\ err' = err
         /\ out' = r.val

\* parse_module on the Skeleton that parse_skeleton returned.
ParseModule ==
    /\ pc = "skeleton_ok"
    /\ ModuleStep(parse_module(input, skel))
    /\ UNCHANGED <<input, pos, last_section, skel, custom, frames, unit>>

Next ==
    \/ CheckMagic
    \/ CheckVersion
    \/ ScanSection
    \/ ReturnSkeleton
    \/ ParseModule

Spec == Init /\ [][Next]_vars

(***************************************************************************)
(* The two calls made a second time on the same bytes                      *)
(***************************************************************************)
\* What the caller holds when parse_skeleton and parse_module have returned:
\* how far the calls got, the error, the Skeleton and the Module.
Outcome ==
    [stage |-> pc, err |-> err, module |-> out,
     skeleton |-> IF pc = "skeleton_err" THEN <<>> ELSE <<skel, custom>>]

\* The calls have returned to the caller.
Returned == pc \in {"skeleton_err", "module_ok", "module_err"}

\* The input with the outcome of the first pair of calls on it.
FirstCall(res) ==
    [family |-> "module", A |-> "Module", bytes |-> input, at |-> 0,
     done |-> TRUE, res |-> res]

\* Again with last_section kept from the first call, as a static would be.
Again_keeps_last_section ==
    /\ Returned
    /\ unit = NoUnit
    /\ unit' = FirstCall(Outcome)
    /\ pos' = 0
    /\ pc' = "magic"
    /\ skel' = EmptySkeleton
    /\ custom' = <<>>
    /\ frames' = <<>>
    /\ err' = "none"
    /\ out' = <<>>
    /\ UNCHANGED <<input, last_section>>

\* parse_skeleton called a second time on the same bytes: a new cursor at 0
\* and new locals, nothing left over from the first call.
Again ==
    /\ Returned
    /\ unit = NoUnit
    /\ unit' = FirstCall(Outcome)
    /\ pos' = 0
    /\ pc' = "magic"
    /\ last_section' = 0
    /\ skel' = EmptySkeleton
    /\ custom' = <<>>
    /\ frames' = <<>>
    /\ err' = "none"
    /\ out' = <<>>
    /\ UNCHANGED input

TwiceNext ==
    \/ CheckMagic
    \/ CheckVersion
    \/ ScanSection
    \/ ReturnSkeleton
    \/ ParseModule
    \/ Again

TwiceSpec == Init /\ [][TwiceNext]_vars

(***************************************************************************)
(* parse_skeleton on two inputs that differ in the content of a section    *)
(***************************************************************************)
\* The number that the bytes of an unsigned LEB128 encoding stand for.
RECURSIVE leb128_value(_)
leb128_value(bs) ==
    IF bs = <<>> THEN 0 ELSE (Head(bs) % 128) + 128 * leb128_value(Tail(bs))

\* The indices of the content bytes of b: from the kind byte at offset p, a
\* length prefix of up to five bytes, that many content bytes, and on to the
\* next kind byte; nothing where the prefix or the content runs past the end.
RECURSIVE content_positions(_, _)
content_positions(b, p) ==
    LET ends == {j \in 0..4 : p + 2 + j <= Len(b) /\ b[p + 2 + j] < 128}
        j == CHOOSE j \in ends : \A i \in ends : j <= i
        off == p + 2 + j
        n == leb128_value(SubSeq(b, p + 2, off))
    IN  IF p + 1 >= Len(b) \/ ends = {} THEN {}
        ELSE IF \E i \in 0..(j - 1) : b[p + 2 + i] < 128 THEN {}
        ELSE IF n > Len(b) - off THEN {}
        ELSE ((off + 1)..(off + n)) \cup content_positions(b, off + n)

\* The bytes a content byte is replaced by.
ContentBytes == {0, 128, 255}

\* What parse_skeleton has returned: the error, or the Skeleton.
SkeletonOutcome ==
    [stage |-> pc, err |-> err,
     skeleton |-> IF pc = "skeleton_ok" THEN <<skel, custom>> ELSE <<>>]

\* The outcome of the first call, kept with the input it was for.
FirstSkeleton(res) ==
    [family |-> "skeleton", A |-> "Skeleton", bytes |-> input, at |-> 0,
     done |-> TRUE, res |-> res]

\* parse_skeleton called on an input that differs from the first in one
\* content byte of a section: a new cursor and new locals.
Rewrite ==
    /\ pc \in {"skeleton_ok", "skeleton_err"}
    /\ unit = NoUnit
    /\ \E i \in content_positions(input, 8), x \in ContentBytes :
           /\ input[i] # x
           /\ input' = [input EXCEPT ![i] = x]
    /\ unit' = FirstSkeleton(SkeletonOutcome)
    /\ pos' = 0
    /\ pc' = "magic"
    /\ last_section' = 0
    /\ skel' = EmptySkeleton
    /\ custom' = <<>>
    /\ frames' = <<>>
    /\ err' = "none"
    /\ out' = <<>>

ContentNext ==
    \/ CheckMagic
    \/ CheckVersion
    \/ ScanSection
    \/ ReturnSkeleton
    \/ Rewrite

ContentSpec == Init /\ [][ContentNext]_vars

(***************************************************************************)
(* parse_skeleton run to its end                                           *)
(***************************************************************************)
\* One call of parse_skeleton: straight-line code and one loop, so a step
\* that can be taken is taken.
SkeletonNext ==
    \/ CheckMagic
    \/ CheckVersion
    \/ ScanSection
    \/ ReturnSkeleton

\* The inputs of less than MaxBody bytes after the header.
SkeletonInit == Init /\ Len(input) - 8 < MaxBody

SkeletonSpec == SkeletonInit /\ [][SkeletonNext]_vars /\ WF_vars(SkeletonNext)

(***************************************************************************)
(* strip on a Skeleton, before parse_module                                *)
(***************************************************************************)
\* The most calls of strip on one Skeleton.
MaxStrips == 2

\* The Skeleton with the calls of strip made on it so far in at.
Stripped(n) ==
    [family |-> "strip", A |-> "Skeleton", bytes |-> <<>>, at |-> n,
     done |-> FALSE, res |-> Err(0, "none")]

\* strip that also forgets the Code section.
Strip_clears_code ==
    /\ pc = "skeleton_ok"
    /\ unit.at < MaxStrips
    /\ custom' = <<>>
    /\ skel' = [skel EXCEPT !.code = None]
    /\ unit' = Stripped(unit.at + 1)
    /\ UNCHANGED <<input, pos, pc, last_section, frames, err, out>>

\* strip: skeleton.custom = Vec::new().
Strip ==
    /\ pc = "skeleton_ok"
    /\ unit.at < MaxStrips
    /\ custom' = <<>>
    /\ unit' = Stripped(unit.at + 1)
    /\ UNCHANGED <<input, pos, pc, last_section, skel, frames, err, out>>

StripNext ==
    \/ CheckMagic
    \/ CheckVersion
    \/ ScanSection
    \/ ReturnSkeleton
    \/ Strip
    \/ ParseModule

StripSpec == Init /\ [][StripNext]_vars

(***************************************************************************)
(* instantiate: parse_skeleton, validate_module, compile                   *)
(***************************************************************************)
\* validate_module on a Skeleton: the sections are decoded, then the module
\* is checked against the import and export policy; valid is the verdict of
\* that check.
validate_module(b, skeleton, valid) ==
    LET module == parse_module(b, skeleton)
    IN  IF ~module.ok THEN module
        ELSE IF ~valid THEN Err(0, "validation error")
        ELSE Ok(0, module.val)

\* The Artifact compiled from a validated module.
Artifact(module) == [artifact |-> module]

\* compile on a validated module; compiles is whether the compiler succeeds.
compile(module, compiles) ==
    IF compiles THEN Ok(0, Artifact(module)) ELSE Err(0, "compile error")

\* instantiate: the ? behind validate_module(imp, &skeleton).
ValidateStep(r) ==
    IF ~r.ok
    THEN /\ pc' = "validate_err"
         /\ err' = r.err
         /\ out' = out
    ELSE /\ pc' = "validated"
         /\ err' = err
         /\ out' = r.val

\* instantiate: validate_module on the Skeleton parse_skeleton returned; an
\* error of parse_skeleton has left the call before.
Validate ==
    /\ pc = "skeleton_ok"
    /\ \E valid \in BOOLEAN : ValidateStep(validate_module(input, skel, valid))
    /\ UNCHANGED <<input, pos, last_section, skel, custom, frames, unit>>

\* The call returns the result r of compile().
CompileStep(r) ==
    IF ~r.ok
    THEN /\ pc' = "compile_err"
         /\ err' = r.err
         /\ out' = <<>>
    ELSE /\ pc' = "artifact"
         /\ err' = err
         /\ out' = r.val

\* Compile run on whatever parse_skeleton has left, validated or not.
Compile_without_validation ==
    /\ pc \in {"skeleton_ok", "validated"}
    /\ \E compiles \in BOOLEAN : CompileStep(compile(out, compiles))
    /\ UNCHANGED <<input, pos, last_section, skel, custom, frames, unit>>

\* instantiate: .compile() on the module validate_module returned.
Compile ==
    /\ pc = "validated"
    /\ \E compiles \in BOOLEAN : CompileStep(compile(out, compiles))
    /\ UNCHANGED <<input, pos, last_section, skel, custom, frames, unit>>

InstantiateNext ==
    \/ CheckMagic
    \/ CheckVersion
    \/ ScanSection
    \/ ReturnSkeleton
    \/ Validate
    \/ Compile

InstantiateSpec == Init /\ [][InstantiateNext]_vars

(***************************************************************************)
(* instantiate_with_metering: parse_skeleton, validate_module,             *)
(* inject_metering, compile                                                *)
(***************************************************************************)
\* Module::inject_metering: the module with the metering instructions in its
\* bodies, or an error; which of the two is the input injects.
Metered(module) == [metered |-> module]
inject_metering(module, injects) ==
    IF injects THEN Ok(0, Metered(module)) ELSE Err(0, "metering error")

\* The caller's step on the result r of module.inject_metering().
InjectStep(r) ==
    IF ~r.ok
    THEN /\ pc' = "metering_err"
         /\ err' = r.err
         /\ out' = <<>>
    ELSE /\ pc' = "metered"
         /\ err' = err
         /\ out' = r.val

\* instantiate_with_metering: module.inject_metering()? on the module
\* validate_module returned.
InjectMetering ==
    /\ pc = "validated"
    /\ \E injects \in BOOLEAN : InjectStep(inject_metering(out, injects))
    /\ UNCHANGED <<input, pos, last_section, skel, custom, frames, unit>>

\* The call returns (artifact, supports_upgrade) on the result r of compile().
CompileMeteredStep(r) ==
    IF ~r.ok
    THEN /\ pc' = "compile_err"
         /\ err' = r.err
         /\ out' = <<>>
    ELSE /\ pc' = "artifact"
         /\ err' = err
         /\ out' = [artifact |-> r.val, supports_upgrade |-> FALSE]

\* CompileMetered on a validated module, metered or not.
CompileMetered_without_metering ==
    /\ pc \in {"validated", "metered"}
    /\ \E compiles \in BOOLEAN : CompileMeteredStep(compile(out, compiles))
    /\ UNCHANGED <<input, pos, last_section, skel, custom, frames, unit>>

\* instantiate_with_metering: module.compile()? after the injection.
CompileMetered ==
    /\ pc = "metered"
    /\ \E compiles \in BOOLEAN : CompileMeteredStep(compile(out, compiles))
    /\ UNCHANGED <<input, pos, last_section, skel, custom, frames, unit>>

MeteringNext ==
    \/ CheckMagic
    \/ CheckVersion
    \/ ScanSection
    \/ ReturnSkeleton
    \/ Validate
    \/ InjectMetering
    \/ CompileMetered

MeteringSpec == Init /\ [][MeteringNext]_vars

(***************************************************************************)
(* One decoder applied to one byte string                                  *)
(***************************************************************************)
\* A decoder not yet applied: the type A that is decoded, the bytes, and the
\* index at of the byte the family varies (a type tag, a count, an opcode).
Unit(family, A, bytes, at) ==
    [family |-> family, A |-> A, bytes |-> bytes, at |-> at, done |-> FALSE,
     res |-> Err(0, "none")]

\* A value-type tag x, every byte, where a value type stands: alone, as a
\* block type, in a Local, in a GlobalType, and as the parameter and as the
\* result of a FunctionType.
ValueTypeUnits ==
    UNION {{Unit("value_type", "ValueType", <<x>>, 1),
            Unit("value_type", "BlockType", <<x>>, 1),
            Unit("value_type", "Local", <<1, x>>, 2),
            Unit("value_type", "GlobalType", <<x, 0>>, 1),
            Unit("value_type", "FunctionType", <<96, 1, x, 0>>, 3),
            Unit("value_type", "FunctionType", <<96, 0, 1, x>>, 4)}
           : x \in 0..255}

\* A function type: a tag, then up to MaxTypes parameters and up to MaxTypes
\* results, each I32 or I64, each vector behind its length.  at is the index
\* of the length of the result vector.
FunctionTypeUnits ==
    {Unit("function_type", "FunctionType",
          <<tag, Len(ps)>> \o ps \o <<Len(rs)>> \o rs, 3 + Len(ps))
        : tag \in {96, 95, 0},
          ps \in SeqsUpTo({127, 126}, MaxTypes),
          rs \in SeqsUpTo({127, 126}, MaxTypes)}

\* What opens a block around the opcode: block, loop, if (the opcode in the
\* then-branch), if with an else marker (the opcode in the else-branch).
Openers == {<<2, 64>>, <<3, 64>>, <<4, 64>>, <<4, 64, 5>>}

\* n END bytes.
Ends(n) == [i \in 1..n |-> END]

\* A Code section of one function without locals whose body is: up to
\* MaxDepth openers, one opcode (every byte), nothing or one or two zero
\* bytes for its immediates, and the ENDs that close the blocks and the body.
InstructionUnits ==
    {Unit("instruction", "CodeSection",
          <<1, Len(Concat(os)) + Len(imm) + Len(os) + 3, 0>>
              \o Concat(os) \o <<op>> \o imm \o Ends(Len(os) + 1),
          Len(Concat(os)) + 4)
        : os \in SeqsUpTo(Openers, MaxDepth),
          op \in 0..255,
          imm \in {<<>>, <<0>>, <<0, 0>>}}

\* A table or memory index on the wire: 0, 1, 2, a padded 0, 128, and 2^28.
IndexEncodings ==
    {<<0>>, <<1>>, <<2>>, <<128, 0>>, <<128, 1>>, <<128, 128, 128, 128, 1>>}

\* What follows the index of a segment: the offset i32.const 0 with no or one
\* initialiser, nothing at all, an offset that starts with f32.const, and an
\* empty offset with no vector behind it.
SegmentRests ==
    {<<65, 0, 11, 0>>, <<65, 0, 11, 1, 0>>, <<>>, <<67, 11, 0>>, <<11>>}

\* An Element and a Data segment: an index, then the rest.  at is the index
\* of the last byte of the table or memory index.
SegmentUnits ==
    {Unit("segment", A, idx \o rest, Len(idx))
        : A \in {"Element", "Data"}, idx \in IndexEncodings, rest \in SegmentRests}

\* The instructions a branch of an If is made of: i32.const 1, i32.const 0,
\* an empty block, and an if with nop in both branches.  No one is a prefix
\* of another.
BranchInstrs == {<<65, 1>>, <<65, 0>>, <<2, 64, 11>>, <<4, 64, 1, 5, 1, 11>>}

\* The most instructions in one branch of an If.
MaxBranch == 2

\* An Expression that is one If: a block type, the then-branch, then END or
\* the else marker with the else-branch and END, then the END of the
\* expression.  at is the index of the byte that ends the then-branch.
IfUnits ==
    {Unit("if", "Expression",
          <<4, ty>> \o Concat(then_branch) \o mid \o <<END>>,
          3 + Len(Concat(then_branch)))
        : ty \in {64, 127},
          then_branch \in SeqsUpTo(BranchInstrs, MaxBranch),
          mid \in {<<END>>} \cup
                  {<<5>> \o Concat(else_branch) \o <<END>>
                      : else_branch \in SeqsUpTo(BranchInstrs, MaxBranch)}}

\* How far the declared size of a Code entry is off its body, at most.
MaxSlack == 2

\* A Code entry: the declared size in one byte or padded to two, a vector of
\* locals, an expression, and what may follow it.  The declared size is the
\* length of the locals and the expression, or off by up to MaxSlack.  at is
\* the index of the END of the expression.
CodeUnits ==
    UNION {{Unit("code", "Code", size \o locals \o expr \o rest,
                 Len(size) + Len(locals) + Len(expr))
              : size \in {<<Len(locals) + Len(expr) + d>>,
                          <<128 + Len(locals) + Len(expr) + d, 0>>},
                rest \in {<<>>, <<0>>, <<END>>, <<1, END>>}}
           : locals \in {<<0>>, <<1, 1, 127>>, <<2, 1, 127, 2, 126>>},
             expr \in {<<END>>, <<1, END>>, <<65, 0, END>>, <<2, 64, END, END>>},
             d \in -MaxSlack..MaxSlack}

\* The largest of the element sizes taken one by one.
MaxElementSize == 16

\* size_of::<A>() of the elements of a vector: zero-sized, every size up to
\* MaxElementSize, and sizes around and beyond MAX_PREALLOCATED_BYTES.
ElementSizes == (0..MaxElementSize) \cup {999, 1000, 1001, 4096}

\* The declared length of a vector on the wire: 0..127, lengths in two bytes
\* around multiples of 128 up to 1151 (1000 is <<232, 7>>), 2^28, 2^32 - 1,
\* and a length beyond u32.
LengthEncodings ==
    {<<n>> : n \in 0..127}
        \cup {<<128 + n, m>> : n \in {0, 103, 104, 105, 127}, m \in 1..8}
        \cup {<<128, 128, 128, 128, 1>>, <<255, 255, 255, 255, 15>>,
              <<255, 255, 255, 255, 31>>}

\* A vector of elements of size bytes each, cut behind its declared length.
ReserveUnits ==
    {[family |-> "reserve", A |-> "Vec", bytes |-> bs, at |-> Len(bs),
      size |-> size, done |-> FALSE, res |-> Err(0, "none")]
        : bs \in LengthEncodings, size \in ElementSizes}

\* The most bytes behind the declared length of a vector.
MaxTail == 3

\* The declared length of a vector of the loop: up to one more than there are
\* bytes, 128, and 2^32 - 1.
CountEncodings ==
    {<<n>> : n \in 0..(MaxTail + 1)} \cup {<<128, 1>>, <<255, 255, 255, 255, 15>>}

\* A vector of bytes, of u32, of value types and of locals: the declared
\* length, then up to MaxTail bytes, each 0x00, 0x7F or 0x80.  at is the
\* index of the last byte of the declared length, todo the elements the loop
\* has yet to decode.
VecUnits ==
    {[family |-> "vec", A |-> A, bytes |-> n \o tail, at |-> Len(n),
      todo |-> 0, done |-> FALSE, res |-> Err(0, "none")]
        : A \in {"Byte", "u32", "ValueType", "Local"},
          n \in CountEncodings,
          tail \in SeqsUpTo({0, 127, 128}, MaxTail)}

\* The most bytes with the continuation bit at the head of an integer.
MaxContinuation == 10

\* The byte an encoding ends with: small, the bounds of the fifth byte of a
\* u32 (0x0F, 0x10) and of an i32 (0x07, 0x08, 0x77, 0x78), the sign bit, and
\* all ones.
LastBytes == {0, 1, 2, 7, 8, 15, 16, 63, 64, 119, 120, 126, 127}

\* An integer on the wire: up to MaxContinuation bytes with the continuation
\* bit, all 0x80 or all 0xFF, then nothing or a byte without it, then nothing
\* or one byte of what follows.  at is the number of continuation bytes.
LebUnits ==
    {Unit("leb", A, [i \in 1..k |-> c] \o last \o rest, k)
        : A \in {"u32", "i32", "u64", "i64"},
          k \in 0..MaxContinuation,
          c \in {128, 255},
          last \in {<<>>} \cup {<<x>> : x \in LastBytes},
          rest \in {<<>>, <<0>>}}

\* The most blocks, loops and ifs one inside the other in a nest unit.
MaxNest == 4

\* The calls of the instruction decoder the call stack has room for, one
\* inside the other.
StackFrames == 6

\* An Expression of nested blocks: up to MaxNest openers, then nothing, a
\* nop, an else marker or i32.const 0, then an END for every opener and one
\* for the expression, or one END fewer.  at is the number of openers; calls
\* is the stack of the decoder calls that are active, outermost first.
NestUnits ==
    {[family |-> "nest", A |-> "Expression",
      bytes |-> Concat(os) \o mid \o Ends(Len(os) + ends), at |-> Len(os),
      calls |-> <<>>, done |-> FALSE, res |-> Err(0, "none")]
        : os \in SeqsUpTo(Openers, MaxNest),
          mid \in {<<>>, <<1>>, <<5>>, <<65, 0>>},
          ends \in {0, 1}}

\* The unit is one of a family.
IsUnit(u) ==
    \/ u \in ValueTypeUnits
    \/ u \in FunctionTypeUnits
    \/ u \in InstructionUnits
    \/ u \in SegmentUnits
    \/ u \in IfUnits
    \/ u \in CodeUnits
    \/ u \in ReserveUnits
    \/ u \in VecUnits
    \/ u \in LebUnits
    \/ u \in NestUnits

\* The families whose bytes are the whole content of a section.
SectionFamilies == {"instruction"}

\* The families decoded by one call of cursor.next().
ItemFamilies ==
    {"value_type", "function_type", "segment", "if", "code", "leb"}

DecodeInit ==
    /\ IsUnit(unit)
    /\ input = <<>>
    /\ pos = 0
    /\ pc = "decode"
    /\ last_section = 0
    /\ skel = EmptySkeleton
    /\ custom = <<>>
    /\ frames = <<>>
    /\ err = "none"
    /\ out = <<>>

\* The unit with its decoder applied.
Decoded(res) == unit' = [unit EXCEPT !.done = TRUE, !.res = res]

\* cursor.next() on a cursor at the start of the bytes.
DecodeItem ==
    /\ ~unit.done
    /\ unit.family \in ItemFamilies
    /\ Decoded(parse(unit.A, unit.bytes, 0))
    /\ UNCHANGED <<input, pos, pc, last_section, skel, custom, frames, err, out>>

\* bytes.next() on the content of a section, as parse_module does.
DecodeSection ==
    /\ ~unit.done
    /\ unit.family \in SectionFamilies
    /\ Decoded(next(unit.A, unit.bytes))
    /\ UNCHANGED <<input, pos, pc, last_section, skel, custom, frames, err, out>>

\* Vec<A>::parse up to the allocation of the vector.
DecodeReserve ==
    /\ ~unit.done
    /\ unit.family = "reserve"
    /\ Decoded(Vec_with_capacity(parse("u32", unit.bytes, 0), unit.size))
    /\ UNCHANGED <<input, pos, pc, last_section, skel, custom, frames, err, out>>

\* Vec<A>::parse, step by step: on the result len of u32::parse, the error
\* is returned or the loop is entered with an empty vector.
VecLenStep(len) ==
    IF ~len.ok
    THEN /\ Decoded(len)
         /\ UNCHANGED <<pos, pc, out>>
    ELSE /\ unit' = [unit EXCEPT !.todo = as_usize(len.val)]
         /\ pos' = len.pos
         /\ pc' = "elements"
         /\ out' = <<>>

VecLen ==
    /\ pc = "decode"
    /\ ~unit.done
    /\ unit.family = "vec"
    /\ VecLenStep(parse("u32", unit.bytes, 0))
    /\ UNCHANGED <<input, last_section, skel, custom, frames, err>>

\* VecPushStep with the vector returned as it is when an element fails.
VecPushStep_returns_short(elem) ==
    IF ~elem.ok
    THEN /\ Decoded(Ok(pos, out))
         /\ pc' = "decode"
         /\ UNCHANGED <<pos, out>>
    ELSE /\ unit' = [unit EXCEPT !.todo = unit.todo - 1]
         /\ pos' = elem.pos
         /\ out' = Append(out, elem.val)
         /\ pc' = pc

\* One iteration of the loop, on the result elem of cursor.next(): the error
\* is returned or the element is pushed.
VecPushStep(elem) ==
    IF ~elem.ok
    THEN /\ Decoded(elem)
         /\ pc' = "decode"
         /\ UNCHANGED <<pos, out>>
    ELSE /\ unit' = [unit EXCEPT !.todo = unit.todo - 1]
         /\ pos' = elem.pos
         /\ out' = Append(out, elem.val)
         /\ pc' = pc

VecPush ==
    /\ pc = "elements"
    /\ unit.todo > 0
    /\ VecPushStep(parse(unit.A, unit.bytes, pos))
    /\ UNCHANGED <<input, last_section, skel, custom, frames, err>>

\* The loop is over: the vector is returned.
VecReturn ==
    /\ pc = "elements"
    /\ unit.todo = 0
    /\ Decoded(Ok(pos, out))
    /\ pc' = "decode"
    /\ UNCHANGED <<input, pos, last_section, skel, custom, frames, err, out>>

\* The instruction decoder, call by call.  The active calls are, outermost
\* first: "sequence" for decode_terminated_sequence in its loop, "block" for
\* decode_instruction of a Block or Loop waiting for its sequence, "then" for
\* decode_instruction of an If in its loop, "else" for decode_instruction of
\* an If waiting for the sequence of its else-branch.
\* The calls left when the innermost one meets END: a then-loop returns; a
\* sequence returns, and with it the Block, Loop or If that waited for it.
calls_after_end(calls) ==
    LET n == Len(calls)
    IN  IF calls[n] = "sequence" /\ n > 1 /\ calls[n - 1] \in {"block", "else"}
        THEN SubSeq(calls, 1, n - 2)
        ELSE SubSeq(calls, 1, n - 1)

\* The calls when an If in its then-loop meets the else marker.
calls_after_else(calls) ==
    SubSeq(calls, 1, Len(calls) - 1) \o <<"else", "sequence">>

\* The calls when opcode op, a Block, a Loop or an If, has its block type.
calls_after_open(calls, op) ==
    calls \o (IF op = 4 THEN <<"then">> ELSE <<"block", "sequence">>)

\* The decoder goes on at p with the given calls, unless they are more than
\* the stack has room for: then the process is gone, with no result.
NestContinue(p, calls) ==
    /\ pos' = p
    /\ IF Len(calls) > StackFrames
       THEN /\ pc' = "stack_overflow"
            /\ unit' = [unit EXCEPT !.calls = calls]
       ELSE IF calls = <<>>
       THEN /\ pc' = "decode"
            /\ unit' = [unit EXCEPT !.calls = calls, !.done = TRUE,
                                    !.res = Ok(p, <<>>)]
       ELSE /\ pc' = pc
            /\ unit' = [unit EXCEPT !.calls = calls]

\* An error leaves every active call through its ?.
NestFail(res) ==
    /\ pos' = res.pos
    /\ pc' = "decode"
    /\ unit' = [unit EXCEPT !.calls = <<>>, !.done = TRUE, !.res = res]

\* NestStep with a Block, Loop or If entered on its opcode alone.
NestStep_opens_on_opcode(byte, ty, inst) ==
    IF ~byte.ok THEN NestFail(byte)
    ELSE IF byte.val = END
    THEN NestContinue(byte.pos, calls_after_end(unit.calls))
    ELSE IF byte.val = 5 /\ unit.calls[Len(unit.calls)] = "then"
    THEN NestContinue(byte.pos, calls_after_else(unit.calls))
    ELSE IF byte.val \in {2, 3, 4}
    THEN NestContinue(byte.pos, calls_after_open(unit.calls, byte.val))
    ELSE IF ~inst.ok THEN NestFail(inst)
    ELSE NestContinue(inst.pos, unit.calls)

\* NestStep with the else marker taken in every loop.
NestStep_else_anywhere(byte, ty, inst) ==
    IF ~byte.ok THEN NestFail(byte)
    ELSE IF byte.val = END
    THEN NestContinue(byte.pos, calls_after_end(unit.calls))
    ELSE IF byte.val = 5
    THEN NestContinue(byte.pos, calls_after_else(unit.calls))
    ELSE IF byte.val \in {2, 3, 4}
    THEN IF ~ty.ok THEN NestFail(ty)
         ELSE NestContinue(ty.pos, calls_after_open(unit.calls, byte.val))
    ELSE IF ~inst.ok THEN NestFail(inst)
    ELSE NestContinue(inst.pos, unit.calls)

\* One turn of the loop of the innermost call, on the byte read, the block
\* type behind it and the instruction decoded from it.
NestStep(byte, ty, inst) ==
    IF ~byte.ok THEN NestFail(byte)
    ELSE IF byte.val = END
    THEN NestContinue(byte.pos, calls_after_end(unit.calls))
    ELSE IF byte.val = 5 /\ unit.calls[Len(unit.calls)] = "then"
    THEN NestContinue(byte.pos, calls_after_else(unit.calls))
    ELSE IF byte.val \in {2, 3, 4}
    THEN IF ~ty.ok THEN NestFail(ty)
         ELSE NestContinue(ty.pos, calls_after_open(unit.calls, byte.val))
    ELSE IF ~inst.ok THEN NestFail(inst)
    ELSE NestContinue(inst.pos, unit.calls)

\* Expression::parse calls decode_terminated_sequence.
NestEnter ==
    /\ pc = "decode"
    /\ ~unit.done
    /\ unit.family = "nest"
    /\ unit' = [unit EXCEPT !.calls = <<"sequence">>]
    /\ pc' = "nested"
    /\ UNCHANGED <<input, pos, last_section, skel, custom, frames, err, out>>

NestTurn ==
    /\ pc = "nested"
    /\ NestStep(Byte_parse(unit.bytes, pos),
                parse("BlockType", unit.bytes, pos + 1),
                decode_instruction(unit.bytes[pos + 1], unit.bytes, pos + 1))
    /\ UNCHANGED <<input, last_section, skel, custom, frames, err, out>>

DecodeNext ==
    \/ DecodeItem
    \/ DecodeSection
    \/ DecodeReserve
    \/ VecLen
    \/ VecPush
    \/ VecReturn
    \/ NestEnter
    \/ NestTurn

DecodeSpec == DecodeInit /\ [][DecodeNext]_vars

(***************************************************************************)
(* Writing a Skeleton back                                                 *)
(***************************************************************************)
\* The unsigned LEB128 encoding of n, in as few bytes as it takes.
RECURSIVE leb128_write(_)
leb128_write(n) ==
    IF n < 128 THEN <<n>> ELSE <<128 + (n % 128)>> \o leb128_write(n \div 128)

\* A section written as its kind, the length of its bytes, and the bytes.
write_section(b, sec) ==
    <<sec.section_id>> \o leb128_write(sec.len) \o Slice(b, sec)

\* The header, then the sections of the Skeleton in the order it holds them:
\* the eleven slots, then the Custom sections.
write_skeleton(b, skeleton, customs) ==
    Header
    \o Concat([k \in 1..11 |->
                  IF skeleton[Slots[k]] = None THEN <<>>
                  ELSE write_section(b, skeleton[Slots[k]][1])])
    \o Concat([i \in DOMAIN customs |-> write_section(b, customs[i])])

(***************************************************************************)
(* Properties of parse_skeleton and parse_module                           *)
(***************************************************************************)
\* parse_skeleton has returned a Skeleton.
Accepted == pc \in {"skeleton_ok", "module_ok", "module_err"}

\* parse_module has returned.
ModuleDone == pc \in {"module_ok", "module_err"}

\* parse_skeleton has failed on the ordering of the sections.
OrderError == pc = "skeleton_err" /\ err = "Section out of place."

\* The kind of the i-th section the scan met.
Kind(i) == frames[i].section.section_id

\* One past the last byte of the i-th section the scan met.
FrameEnd(i) == frames[i].section.off + frames[i].section.len

\* The j-th section is not Custom and follows a non-Custom section whose kind
\* is not smaller.
OutOfPlace(j) ==
    /\ Kind(j) # 0
    /\ \E i \in 1..(j - 1) : Kind(i) # 0 /\ Kind(i) >= Kind(j)

\* The sections the scan met and let pass.
PassedFrames ==
    IF OrderError THEN SubSeq(frames, 1, Len(frames) - 1) ELSE frames

\* The kind of the last non-Custom section of fs, 0 when there is none.
LastNonCustom(fs) ==
    LET nc == {i \in 1..Len(fs) : fs[i].section.section_id # 0}
    IN  IF nc = {} THEN 0
        ELSE fs[CHOOSE i \in nc : \A k \in nc : k <= i].section.section_id

\* C1: a non-Custom section that follows a non-Custom section of the same or
\* a greater kind ends the scan there with the ordering error, whatever the
\* sections hold; the ordering error has no other cause, so a Custom section
\* never raises it; and last_section is the kind of the last non-Custom section
\* that passed, so a Custom section never changes it.
C1_SectionOrder ==
    /\ \A j \in 1..Len(frames) :
           OutOfPlace(j) => (j = Len(frames) /\ OrderError)
    /\ OrderError => (frames # <<>> /\ OutOfPlace(Len(frames)))
    /\ last_section = LastNonCustom(PassedFrames)

\* C1: a Code section, later a Function section, Custom sections around, and
\* the scan has ended with the ordering error.
C1_CodeBeforeFunction ==
    /\ OrderError
    /\ custom # <<>>
    /\ \E i \in 1..Len(frames) : \E j \in (i + 1)..Len(frames) :
           Kind(i) = 10 /\ Kind(j) = 3

\* C2: parse_module fails on every Skeleton that has a Start section.
C2_StartRejected == (ModuleDone /\ skel.start # None) => pc = "module_err"

\* C2: parse_module has returned a Module for a Skeleton whose Start section
\* holds a vector of one function index.
C2_StartAccepted ==
    /\ pc = "module_ok"
    /\ skel.start # None
    /\ Slice(input, skel.start[1]) = <<1, 0>>

\* Every length prefix the scan met is the shortest encoding of its length.
LengthsMinimal ==
    \A i \in 1..Len(frames) :
        frames[i].section.off - frames[i].start - 1
            = Len(leb128_write(frames[i].section.len))

\* No Custom section stands before a non-Custom one.
CustomsLast ==
    \A i \in 1..Len(frames) : \A j \in (i + 1)..Len(frames) :
        Kind(i) = 0 => Kind(j) = 0

\* C3, as stated: for every input parse_skeleton accepts, writing the header
\* and the sections of the Skeleton gives the input back.
C3_RoundTrip == Accepted => write_skeleton(input, skel, custom) = input

\* C3, amended: for every input parse_skeleton accepts in which each length
\* prefix is the shortest encoding and no Custom section stands before a
\* non-Custom one, writing the header and the sections of the Skeleton gives
\* the input back.
C3_RoundTripCanonical ==
    (Accepted /\ LengthsMinimal /\ CustomsLast)
        => write_skeleton(input, skel, custom) = input

\* C3: an accepted input of a non-empty Type section and a Custom section
\* after it, both with the shortest length prefixes.
C3_TypeThenCustom ==
    /\ pc = "skeleton_ok"
    /\ LengthsMinimal /\ CustomsLast
    /\ skel.ty # None /\ skel.ty[1].len > 0
    /\ custom # <<>>

\* bs is one LEB128 encoding: continuation bits on all bytes but the last.
IsLeb128(bs) ==
    /\ bs # <<>>
    /\ \A i \in 1..Len(bs) : (bs[i] >= 128) <=> (i < Len(bs))

\* The header and the sections the scan met lie end to end over the input:
\* each section is its kind byte, an encoding of its length, and that many
\* bytes.
Tiles ==
    /\ Len(input) >= 8 /\ SubSeq(input, 1, 8) = Header
    /\ IF frames = <<>> THEN Len(input) = 8
       ELSE frames[1].start = 8 /\ FrameEnd(Len(frames)) = Len(input)
    /\ \A i \in 1..Len(frames) :
           /\ input[frames[i].start + 1] = Kind(i)
           /\ IsLeb128(SubSeq(input, frames[i].start + 2, frames[i].section.off))
           /\ leb128_value(SubSeq(input, frames[i].start + 2, frames[i].section.off))
                  = frames[i].section.len
           /\ (i < Len(frames) => frames[i + 1].start = FrameEnd(i))

\* C4: when parse_skeleton returns a Skeleton the cursor stands at the end of
\* the input, and the header and the sections tile the input: no byte of an
\* accepted input lies outside the header and the well-formed sections.
C4_WholeInputConsumed == Accepted => (pos = Len(input) /\ Tiles)

\* C4: an accepted input of two sections or more, one of them not empty.
C4_TwoSectionsAccepted ==
    /\ pc = "skeleton_ok"
    /\ Len(frames) >= 2
    /\ \E i \in 1..Len(frames) : frames[i].section.len > 0

\* The first four bytes of the input, fewer when it is shorter, and the next
\* four.
MagicBytes == SubSeq(input, 1, IF Len(input) < 4 THEN Len(input) ELSE 4)
VersionBytes == SubSeq(input, 5, IF Len(input) < 8 THEN Len(input) ELSE 8)

\* C5: once the magic has been read, an input whose first four bytes are not
\* the magic has failed with nothing scanned: with the magic-mismatch error
\* when it has four bytes, with the end-of-input error when it has fewer; and
\* once the version has been read, an input with the magic whose next four
\* bytes are not the version has failed with nothing scanned: with the
\* unsupported-version error when it has eight bytes, with the end-of-input
\* error when it has fewer.
C5_HeaderCheck ==
    /\ (pc # "magic" /\ MagicBytes # MAGIC_HASH) =>
           /\ pc = "skeleton_err" /\ frames = <<>> /\ skel = EmptySkeleton
           /\ err = IF Len(input) < 4 THEN "UnexpectedEof"
                    ELSE "Unknown magic hash"
    /\ (pc \notin {"magic", "version"} /\ MagicBytes = MAGIC_HASH
            /\ VersionBytes # VERSION) =>
           /\ pc = "skeleton_err" /\ frames = <<>> /\ skel = EmptySkeleton
           /\ err = IF Len(input) < 8 THEN "UnexpectedEof"
                    ELSE "Unsupported version."

\* C5: the eight bytes 00 61 73 00 01 00 00 00 have failed with the
\* magic-mismatch error.
C5_BadMagic ==
    /\ input = <<0, 97, 115, 0, 1, 0, 0, 0>>
    /\ pc = "skeleton_err"
    /\ err = "Unknown magic hash"

\* The step of the scan on the length len it has decoded behind a kind byte:
\* a length greater than what is left of the input ends the scan in an error,
\* and no section is kept.
DeclaredLengthChecked(len) ==
    (len.ok /\ as_usize(len.val) > Len(input) - len.pos) =>
        /\ pc' = "skeleton_err"
        /\ skel' = skel /\ custom' = custom /\ frames' = frames

\* Every section kept, in a slot or among the Custom sections or in the
\* history, lies within the input.
SectionsWithinInput ==
    /\ \A i \in 1..Len(frames) : FrameEnd(i) <= Len(input)
    /\ \A i \in 1..Len(custom) : custom[i].off + custom[i].len <= Len(input)
    /\ \A k \in 1..11 :
           skel[Slots[k]] # None =>
               skel[Slots[k]][1].off + skel[Slots[k]][1].len <= Len(input)

\* C6: every step leaves the cursor within the input and every section kept
\* within the input, and a step of the scan that finds a declared length
\* greater than the bytes left behind the length prefix fails.
C6_LengthWithinInput ==
    [][/\ pos' <= Len(input')
       /\ SectionsWithinInput'
       /\ (pc = "scan" /\ pos < Len(input)) =>
              DeclaredLengthChecked(parse("u32", input, pos + 1))]_vars

\* C6: the scan has failed on a length that runs past the end of the input,
\* after a section that passed.
C6_LengthPastEnd ==
    /\ pc = "skeleton_err"
    /\ err = "Malformed byte array"
    /\ frames # <<>>
    /\ pos <= Len(input)

(***************************************************************************)
(* Properties of the decoders                                              *)
(***************************************************************************)
\* The floating-point opcodes.
FloatOps ==
    {42, 43, 56, 57, 67, 68} \cup (91..102) \cup (139..166) \cup (168..171)
        \cup (174..191)

\* The opcode under decoding stands first in the then-branch of an if, where
\* the byte 0x05 is the else marker.
InThenBranch ==
    /\ unit.at >= 3
    /\ unit.bytes[unit.at - 2] = 4
    /\ unit.bytes[unit.at - 1] = 64

\* No instruction of the sequence, at any depth, has a floating-point opcode.
RECURSIVE NoFloat(_)
NoFloat(instrs) ==
    \A i \in 1..Len(instrs) :
        /\ instrs[i].op \notin FloatOps
        /\ NoFloat(instrs[i].then_branch)
        /\ NoFloat(instrs[i].else_branch)

\* C7: a Code section whose body has, at any depth, an opcode that is not
\* supported (and is neither END nor the else marker of an if) fails with the
\* unsupported-instruction error with the cursor just behind that opcode;
\* every floating-point opcode is unsupported, and a Code section that
\* decodes holds no floating-point instruction.
C7_OpcodeRestriction ==
    (unit.family = "instruction" /\ unit.done) =>
        LET op == unit.bytes[unit.at]
        IN  /\ (op \notin SupportedOps \cup {END} /\ ~(op = 5 /\ InThenBranch)) =>
                   unit.res = Err(unit.at, "Unsupported instruction")
            /\ op \in FloatOps => (op \notin SupportedOps /\ ~unit.res.ok)
            /\ unit.res.ok =>
                   \A i \in 1..Len(unit.res.val.impls) :
                       NoFloat(unit.res.val.impls[i].expr.instrs)

\* C7: f64.const inside two blocks has failed as unsupported.
C7_FloatInNestedBlock ==
    /\ unit.family = "instruction" /\ unit.done
    /\ unit.at >= 8
    /\ unit.bytes[unit.at] = 68
    /\ unit.res = Err(unit.at, "Unsupported instruction")

\* The value type a tag stands for.
ValueTypeOf(x) == IF x = 127 THEN "I32" ELSE "I64"

\* The value type decoded where the tag stood.
DecodedValueType ==
    CASE unit.A = "ValueType" -> unit.res.val
      [] unit.A \in {"Local", "GlobalType"} -> unit.res.val.ty
      [] unit.A = "FunctionType" /\ unit.at = 3 -> unit.res.val.parameters[1]
      [] unit.A = "FunctionType" /\ unit.at = 4 -> unit.res.val.result[1]

\* C8: a value-type tag decodes to I32 when it is 0x7F and to I64 when it is
\* 0x7E, alone and as a parameter, a result, a local and the type of a
\* global, and every other byte fails there with the unsupported-value-type
\* error; a block type is the empty type for 0x40, I32 or I64 for those two
\* tags, and an error for every other byte.
C8_ValueTypesClosed ==
    (unit.family = "value_type" /\ unit.done) =>
        LET x == unit.bytes[unit.at]
        IN  IF unit.A = "BlockType"
            THEN IF x \in {64, 126, 127}
                 THEN /\ unit.res.ok /\ unit.res.pos = 1
                      /\ unit.res.val = IF x = 64 THEN "EmptyType" ELSE ValueTypeOf(x)
                 ELSE unit.res = Err(1, "Unsupported block type")
            ELSE IF x \in {126, 127}
                 THEN /\ unit.res.ok /\ unit.res.pos = Len(unit.bytes)
                      /\ DecodedValueType = ValueTypeOf(x)
                 ELSE unit.res = Err(unit.at, "Unsupported value type")

\* C8: the tag 0x7D of f32 as the parameter of a function type has failed.
C8_FloatParameter ==
    /\ unit.family = "value_type" /\ unit.done
    /\ unit.A = "FunctionType" /\ unit.at = 3
    /\ unit.bytes[unit.at] = 125
    /\ unit.res.err = "Unsupported value type"

\* C9: a function type must start with 0x60; with more than one result it is
\* rejected, with none it decodes to a type without result, with one to a
\* type with that result; the parameters are the ones declared.
C9_SingleResult ==
    (unit.family = "function_type" /\ unit.done) =>
        LET tag == unit.bytes[1]
            np == unit.bytes[2]
            nr == unit.bytes[unit.at]
        IN  /\ tag # 96 => unit.res = Err(1, "Unexpected byte")
            /\ (tag = 96 /\ nr > 1) =>
                   /\ ~unit.res.ok
                   /\ unit.res.err = "Only single return value is supported."
            /\ (tag = 96 /\ nr <= 1) =>
                   /\ unit.res.ok /\ unit.res.pos = Len(unit.bytes)
                   /\ unit.res.val.parameters
                          = [i \in 1..np |-> ValueTypeOf(unit.bytes[2 + i])]
                   /\ unit.res.val.result
                          = IF nr = 0 THEN None
                            ELSE Some(ValueTypeOf(unit.bytes[unit.at + 1]))

\* C9: a function type that declares two results has been rejected.
C9_TwoResults ==
    /\ unit.family = "function_type" /\ unit.done
    /\ unit.bytes[1] = 96
    /\ unit.bytes[unit.at] = 2
    /\ unit.res.err = "Only single return value is supported."

\* The content of the section in slot s of the Skeleton.
SectionContent(s) == Slice(input, skel[s][1])

\* The limits that stand at index k of the content c, flag first.
LimitsAt(c, k) ==
    [min |-> U32(c[k + 1]),
     max |-> IF c[k] = 0 THEN None ELSE Some(U32(c[k + 2]))]

\* The section in slot s declares n entries in one byte, and parse_module
\* has returned.
Declares(s, n) ==
    /\ ModuleDone
    /\ skel[s] # None
    /\ SectionContent(s) # <<>>
    /\ SectionContent(s)[1] = n

\* C10: parse_module fails on a Table section and on a Memory section that
\* declares two entries or more; when it returns a Module, a section that
\* declares no entry holds no type and a section that declares one entry
\* holds the limits of that entry.
C10_AtMostOneTableAndMemory ==
    /\ \A n \in 2..127 :
           (Declares("table", n) \/ Declares("memory", n)) => pc = "module_err"
    /\ (Declares("table", 0) /\ pc = "module_ok") =>
           out.table = [table_type |-> None]
    /\ (Declares("table", 1) /\ pc = "module_ok") =>
           out.table = [table_type |->
                           Some([limits |-> LimitsAt(SectionContent("table"), 3)])]
    /\ (Declares("memory", 0) /\ pc = "module_ok") =>
           out.memory = [memory_type |-> None]
    /\ (Declares("memory", 1) /\ pc = "module_ok") =>
           out.memory = [memory_type |->
                            Some([limits |-> LimitsAt(SectionContent("memory"), 2)])]

\* C10: parse_module has failed on a Table section of two well-formed
\* entries.
C10_TwoTables ==
    /\ Declares("table", 2)
    /\ pc = "module_err"
    /\ err = "Only table with index 0 is supported."

\* The bytes of the unit behind the byte at.
UnitRest == SubSeq(unit.bytes, unit.at + 1, Len(unit.bytes))

\* C11: an Element segment whose table index is not 0 and a Data segment
\* whose memory index is not 0 fail on the index, with the cursor right
\* behind it, whatever follows; with the index 0 the offset and the
\* initialisers are read: they decode, or the offset fails on its own.
C11_SegmentIndexZero ==
    (unit.family = "segment" /\ unit.done) =>
        LET idx == leb128_value(SubSeq(unit.bytes, 1, unit.at))
        IN  /\ idx # 0 =>
                   unit.res = Err(unit.at,
                                  IF unit.A = "Element"
                                  THEN "Only table index 0 is supported."
                                  ELSE "Only memory index 0 is supported.")
            /\ (idx = 0 /\ UnitRest # <<>> /\ UnitRest[1] = 65) =>
                   /\ unit.res.ok /\ unit.res.pos = Len(unit.bytes)
                   /\ Len(unit.res.val.offset.instrs) = 1
                   /\ unit.res.val.offset.instrs[1].op = 65
            /\ (idx = 0 /\ UnitRest # <<>> /\ UnitRest[1] = 67) =>
                   unit.res = Err(unit.at + 1, "Unsupported instruction")

\* C11: an Element segment with the table index 1 and an offset that could
\* not be decoded has failed on the index.
C11_ElementIndexOne ==
    /\ unit.family = "segment" /\ unit.done
    /\ unit.A = "Element"
    /\ unit.bytes = <<1, 67, 11, 0>>
    /\ unit.res = Err(1, "Only table index 0 is supported.")

\* The opcodes of the instructions of BranchInstrs that s is made of, one
\* behind the other.
RECURSIVE BranchOps(_)
BranchOps(s) ==
    IF s = <<>> THEN <<>>
    ELSE LET i == CHOOSE i \in BranchInstrs :
                      Len(i) <= Len(s) /\ SubSeq(s, 1, Len(i)) = i
         IN  <<i[1]>> \o BranchOps(SubSeq(s, Len(i) + 1, Len(s)))

\* The opcodes of a decoded sequence of instructions.
OpsOf(instrs) == [i \in 1..Len(instrs) |-> instrs[i].op]

\* C12: an If decodes to its block type, the instructions up to the END or
\* the else marker of its own nesting level as the then-branch, and, behind
\* an else marker, the instructions up to the matching END as the
\* else-branch; without an else marker the else-branch is empty.
C12_IfElse ==
    (unit.family = "if" /\ unit.done) =>
        /\ unit.res.ok
        /\ unit.res.pos = Len(unit.bytes)
        /\ Len(unit.res.val.instrs) = 1
        /\ LET if == unit.res.val.instrs[1]
               n == Len(unit.bytes)
           IN  /\ if.op = 4
               /\ if.imm = <<BlockType_parse(unit.bytes, 1).val>>
               /\ OpsOf(if.then_branch)
                      = BranchOps(SubSeq(unit.bytes, 3, unit.at - 1))
               /\ unit.bytes[unit.at] = END => if.else_branch = <<>>
               /\ unit.bytes[unit.at] = 5 =>
                      OpsOf(if.else_branch)
                          = BranchOps(SubSeq(unit.bytes, unit.at + 1, n - 2))

\* C12: if (i32) [i32.const 1] else [i32.const 0] end has decoded to one
\* instruction in each branch.
C12_ConstInBothBranches ==
    /\ unit.family = "if" /\ unit.done
    /\ unit.bytes = <<4, 127, 65, 1, 5, 65, 0, END, END>>
    /\ unit.res.ok
    /\ OpsOf(unit.res.val.instrs[1].then_branch) = <<65>>
    /\ unit.res.val.instrs[1].then_branch[1].imm = <<i32_parse(<<1>>, 0).val>>
    /\ OpsOf(unit.res.val.instrs[1].else_branch) = <<65>>
    /\ unit.res.val.instrs[1].else_branch[1].imm = <<i32_parse(<<0>>, 0).val>>

\* The length of the declared size at the head of a Code unit.
SizeLen == IF unit.bytes[1] >= 128 THEN 2 ELSE 1

\* C13: a Code entry is accepted exactly if the locals and the expression
\* take as many bytes as the declared size says; a larger and a smaller
\* declared size fail with the size error, whatever follows the expression.
C13_CodeSizeExact ==
    (unit.family = "code" /\ unit.done) =>
        LET declared == leb128_value(SubSeq(unit.bytes, 1, SizeLen))
            actual == unit.at - SizeLen
        IN  /\ unit.res.ok <=> declared = actual
            /\ unit.res.pos = unit.at
            /\ ~unit.res.ok =>
                   unit.res.err = "Declared size must match actual size."

\* C13: a Code entry that declares one byte more than its body, with a byte
\* behind the body to make up for it, has failed with the size error.
C13_PaddedCode ==
    /\ unit.family = "code" /\ unit.done
    /\ unit.bytes = <<4, 0, 1, END, 0>>
    /\ unit.res = Err(4, "Declared size must match actual size.")

\* The sections present in the Skeleton that do not decode from their bytes.
FailingSections ==
    {k \in 1..11 : /\ skel[Slots[k]] # None
                   /\ ~next(SectionTypes[k], SectionContent(Slots[k])).ok}

\* C14: parse_module fails exactly if a section present in the Skeleton
\* fails to decode, with the error of the first such section and no Module;
\* else the Module has all eleven sections, the default for an absent
\* section and for a present one what its own bytes decode to.
C14_AllSectionsOrNone ==
    ModuleDone =>
        /\ pc = "module_err" <=> FailingSections # {}
        /\ pc = "module_err" =>
               LET k == CHOOSE k \in FailingSections :
                            \A j \in FailingSections : k <= j
               IN  /\ out = <<>>
                   /\ err = next(SectionTypes[k], SectionContent(Slots[k])).err
        /\ pc = "module_ok" =>
               /\ DOMAIN out = {Slots[k] : k \in 1..11}
               /\ \A k \in 1..11 :
                      out[Slots[k]] =
                          IF skel[Slots[k]] = None THEN Default(SectionTypes[k])
                          ELSE next(SectionTypes[k], SectionContent(Slots[k])).val

\* C14: a Module has been returned for an input with a Function section of
\* one entry and no Type section.
C14_FunctionWithoutType ==
    /\ pc = "module_ok"
    /\ skel.ty = None /\ out.ty = [types |-> <<>>]
    /\ skel.func # None /\ SectionContent("func") = <<1, 0>>
    /\ out.func = [types |-> <<U32(0)>>]

\* C14: parse_module has failed on a section although a section before it
\* had been decoded.
C14_SecondSectionFails ==
    /\ pc = "module_err"
    /\ \E k \in FailingSections : \E j \in 1..(k - 1) : skel[Slots[j]] # None

\* The sections of kind k the scan has met.
FramesOfKind(k) == {i \in 1..Len(frames) : Kind(i) = k}

\* Every slot of the Skeleton holds the one section of its kind, if any.
OneSectionPerKind ==
    \A k \in 1..11 :
        IF skel[Slots[k]] = None THEN FramesOfKind(k) = {}
        ELSE /\ skel[Slots[k]][1].section_id = k
             /\ \E i \in 1..Len(frames) :
                    /\ FramesOfKind(k) = {i}
                    /\ frames[i].section = skel[Slots[k]][1]

\* A slot that holds a section keeps it.
SlotsKept ==
    \A k \in 1..11 :
        skel[Slots[k]] # None => skel'[Slots[k]] = skel[Slots[k]]

\* C15: in a Skeleton that parse_skeleton returns every populated slot holds
\* the only section of its kind in the input, with the section_id of the
\* slot, and during the scan no slot is assigned a second time.
C15_OneSectionPerKind ==
    /\ [](Accepted => OneSectionPerKind)
    /\ [][SlotsKept]_vars

\* C15: a Skeleton has been returned with a Function section, a Code section
\* and a Custom section.
C15_FunctionAndCode ==
    /\ pc = "skeleton_ok"
    /\ skel.func # None /\ skel.code # None
    /\ custom # <<>>

C16_SecondOrderError ==
    /\ unit.family = "module"
    /\ OrderError

\* C17: the elements a vector reserves up front are the declared length or
\* MAX_PREALLOCATED_BYTES / max(1, element size), whichever is smaller, and
\* take no more than MAX_PREALLOCATED_BYTES bytes, whatever the declared
\* length and the element size.
C17_CappedReservation ==
    (unit.family = "reserve" /\ unit.done /\ unit.res.ok) =>
        LET cap == MAX_PREALLOCATED_BYTES \div (IF unit.size = 0 THEN 1 ELSE unit.size)
        IN  /\ unit.res.val * unit.size <= MAX_PREALLOCATED_BYTES
            /\ unit.res.val <= cap
            /\ unit.res.val =
                   IF Len(unit.bytes) <= 2 /\ leb128_value(unit.bytes) < cap
                   THEN leb128_value(unit.bytes)
                   ELSE cap

\* C17: a vector that declares 2^32 - 1 elements of 8 bytes has reserved
\* 125 elements.
C17_LargestLength ==
    /\ unit.family = "reserve" /\ unit.done
    /\ unit.bytes = <<255, 255, 255, 255, 15>>
    /\ unit.size = 8
    /\ unit.res = Ok(5, 125)

\* The bytes behind the declared length of a vector unit.
Remaining == Len(unit.bytes) - unit.at

\* The declared length of a vector unit is larger than the bytes behind it.
DeclaresMoreThanRemains ==
    \/ unit.at = 5
    \/ leb128_value(SubSeq(unit.bytes, 1, unit.at)) > Remaining

\* C18: a vector that declares more elements than there are bytes behind its
\* length fails; while it is decoded the cursor stays within the input,
\* every element pushed has taken at least one byte, and the elements held
\* are no more than the bytes behind the length.  The loop returns what
\* Vec_parse returns.
C18_CountBeyondInputFails ==
    unit.family = "vec" =>
        /\ pos <= Len(unit.bytes)
        /\ pc = "elements" => Len(out) <= pos - unit.at
        /\ Len(out) <= Remaining
        /\ unit.done => unit.res = Vec_parse(unit.A, unit.bytes, 0)
        /\ (unit.done /\ DeclaresMoreThanRemains) => ~unit.res.ok

\* C18: a vector of bytes that declares 2^32 - 1 elements with three bytes
\* behind the length has failed at the end of the input with three elements
\* held.
C18_ThreeOfMany ==
    /\ unit.family = "vec" /\ unit.done
    /\ unit.A = "Byte"
    /\ unit.bytes = <<255, 255, 255, 255, 15, 0, 127, 128>>
    /\ Len(out) = 3
    /\ unit.res = Err(8, "UnexpectedEof")

\* The most bytes the integer type of the unit may take.
WidthCap == IF unit.A \in {"u32", "i32"} THEN 5 ELSE 10

\* The bytes with the continuation bit at the head of the unit.
Continued ==
    IF \A i \in 1..Len(unit.bytes) : unit.bytes[i] >= 128 THEN Len(unit.bytes)
    ELSE CHOOSE k \in 0..(Len(unit.bytes) - 1) :
             /\ unit.bytes[k + 1] < 128
             /\ \A i \in 1..k : unit.bytes[i] >= 128

\* The encoding of the unit is complete and of the widest length, and its
\* last byte carries bits the type has no room for.
OutOfRange ==
    /\ Continued = WidthCap - 1
    /\ Len(unit.bytes) >= WidthCap
    /\ unit.bytes[WidthCap] \notin
           CASE unit.A = "u32" -> 0..15
             [] unit.A = "i32" -> (0..7) \cup (120..127)
             [] unit.A = "u64" -> {0, 1}
             [] unit.A = "i64" -> {0, 127}

\* C19: a u32 and an i32 take at most 5 bytes, a u64 and an i64 at most 10; a
\* continuation bit on the last byte they may take is an error, and so is an
\* encoding of the widest length whose value the type cannot hold; every
\* other complete encoding decodes, up to its last byte.
C19_WidthCaps ==
    (unit.family = "leb" /\ unit.done) =>
        /\ unit.res.pos <= WidthCap
        /\ unit.res.pos <= Len(unit.bytes)
        /\ Continued >= WidthCap => ~unit.res.ok
        /\ OutOfRange => ~unit.res.ok
        /\ (Continued < WidthCap /\ Continued < Len(unit.bytes) /\ ~OutOfRange) =>
               unit.res.ok /\ unit.res.pos = Continued + 1

\* C19: the five bytes FF FF FF FF 10, which spell 2^32 + 2^28 - 1, have been
\* refused as a u32.
C19_BeyondU32 ==
    /\ unit.family = "leb" /\ unit.done
    /\ unit.A = "u32"
    /\ unit.bytes = <<255, 255, 255, 255, 16>>
    /\ unit.res = Err(5, "TryFromIntError")

\* The step has read a section: its kind byte at the cursor, then the length
\* prefix, then the bytes of the view.
SectionRead == frames' # frames

\* The view a step has read is the n bytes behind the length prefix that
\* spells n, and the cursor has moved over the kind byte, the prefix and the
\* n bytes.
ViewExact ==
    LET view == frames'[Len(frames')].section
        prefix == SubSeq(input, pos + 2, view.off)
    IN  /\ IsLeb128(prefix)
        /\ leb128_value(prefix) = view.len
        /\ Slice(input, view)
               = SubSeq(input, pos + 2 + Len(prefix),
                        pos + 1 + Len(prefix) + view.len)
        /\ pos' = pos + 1 + Len(prefix) + view.len

\* C20: the cursor never stands beyond the end of the input and no step,
\* failing or not, moves it back; a view read with the declared length n is
\* the n bytes behind the length prefix, and reading it moves the cursor by
\* the size of the prefix plus n.
C20_CursorWithinAndForward ==
    /\ [](pos <= Len(input))
    /\ [][pos' >= pos /\ (SectionRead => ViewExact)]_vars

\* C20: a view of three bytes has been read, and a later step has failed
\* with the cursor moved on.
C20_ViewThenFailure ==
    /\ pc = "skeleton_err"
    /\ \E i \in 1..Len(frames) :
           /\ frames[i].section.len = 3
           /\ FrameEnd(i) < pos

\* The stage that has failed, if any, and the stages of instantiate in order.
FailedStages == {"skeleton_err", "validate_err", "compile_err"}
ParsingStages == {"magic", "version", "scan"}

\* The call has an Artifact to return.
HasArtifact == DOMAIN out = {"artifact"}

\* A step of instantiate keeps the order of the stages: validation is
\* entered from a Skeleton returned, compilation from a validated module,
\* and nothing follows a failure or the Artifact.
StagesInOrder ==
    /\ pc \notin FailedStages \cup {"artifact"}
    /\ err = "none"
    /\ pc' \in {"validated", "validate_err"} => pc = "skeleton_ok"
    /\ pc' \in {"artifact", "compile_err"} => pc = "validated"
    /\ pc' \in {"skeleton_ok", "skeleton_err"} => pc \in ParsingStages

\* C21: instantiate runs parse_skeleton, validate_module and compile in this
\* order, each on the success of the one before; a failure ends the call
\* with its one error and no Artifact, and an Artifact is there only when
\* compile has succeeded.
C21_StagesInOrder ==
    /\ [][StagesInOrder]_vars
    /\ [](pc \in FailedStages <=> err # "none")
    /\ [](HasArtifact <=> pc = "artifact")

\* C21: an Artifact has been returned for an input with a Function section
\* of one entry.
C21_ArtifactReturned ==
    /\ pc = "artifact"
    /\ out.artifact.func = [types |-> <<U32(0)>>]

\* C21: validation has failed on a module whose sections all decode.
C21_ValidationFailed ==
    /\ pc = "validate_err"
    /\ err = "validation error"
    /\ skel.func # None

\* C22: the decoding of an expression ends with a value or with an error,
\* however deep its blocks are nested: it never runs out of call stack.
C22_NeverOutOfStack ==
    unit.family = "nest" => pc # "stack_overflow"

\* C22: three blocks one inside the other have taken more calls than the
\* stack has room for, and the decoder is gone without a result.
C22_StackExhausted ==
    /\ pc = "stack_overflow"
    /\ SubSeq(unit.bytes, 1, pos) = <<2, 64, 2, 64, 2, 64>>
    /\ Len(unit.calls) > StackFrames
    /\ ~unit.done

\* The bytes of the input that lie in a section parse_skeleton has returned.
ReturnedPositions ==
    UNION {(frames[i].section.off + 1)..FrameEnd(i) : i \in 1..Len(frames)}

\* C23: parse_skeleton on an input that differs from another in content
\* bytes only returns what it returned for the other: the same error, or the
\* same kinds and boundaries of the sections; and the sections of a Skeleton
\* returned are the content bytes of the input, all of them.
C23_ContentNotInterpreted ==
    /\ (unit.family = "skeleton" /\ pc \in {"skeleton_ok", "skeleton_err"}) =>
           /\ SkeletonOutcome = unit.res
           /\ content_positions(input, 8) = content_positions(unit.bytes, 8)
    /\ pc = "skeleton_ok" => ReturnedPositions = content_positions(input, 8)

\* C23: a Skeleton has been returned for an input whose Type section has
\* the content FF, after one for the same input with another content.
C23_OtherContentAccepted ==
    /\ unit.family = "skeleton"
    /\ pc = "skeleton_ok"
    /\ skel.ty # None /\ SectionContent("ty") = <<255>>
    /\ unit.bytes # input

\* C23: parse_skeleton has failed on the order of the sections the second
\* time as the first, with another content in a section before.
C23_OtherContentRejected ==
    /\ unit.family = "skeleton"
    /\ OrderError
    /\ unit.res.err = "Section out of place."
    /\ unit.bytes # input

\* The Skeleton as parse_skeleton returned it, from the sections it met.
ScannedSlots ==
    [s \in {Slots[k] : k \in 1..11} |->
        IF \E i \in 1..Len(frames) : Kind(i) # 0 /\ Slots[Kind(i)] = s
        THEN Some(frames[CHOOSE i \in 1..Len(frames) :
                             Kind(i) # 0 /\ Slots[Kind(i)] = s].section)
        ELSE None]
ScannedCustom ==
    LET cs == {i \in 1..Len(frames) : Kind(i) = 0}
        nth(k) == CHOOSE i \in cs : Cardinality({j \in cs : j <= i}) = k
    IN  [k \in 1..Cardinality(cs) |-> frames[nth(k)].section]

\* The step is a call of strip.
IsStrip == unit'.at = unit.at + 1 /\ unit'.family = "strip"

\* C24: strip leaves no Custom section and leaves the eleven slots as they
\* were, a second strip changes nothing, and parse_module returns for the
\* stripped Skeleton what it returns for the Skeleton as it was scanned.
C24_StripOnlyCustom ==
    /\ [][IsStrip =>
              /\ custom' = <<>>
              /\ skel' = skel /\ skel = ScannedSlots
              /\ unit.at > 0 => custom' = custom]_vars
    /\ [](pc = "skeleton_ok" /\ unit.at = 0 => custom = ScannedCustom)
    /\ []((ModuleDone /\ unit.at > 0) =>
              LET r == parse_module(input, ScannedSlots)
              IN  /\ r.ok <=> pc = "module_ok"
                  /\ r.ok => out = r.val
                  /\ ~r.ok => err = r.err)

\* C24: a Skeleton with a Custom section and a Function section has been
\* stripped twice, and parse_module has returned a Module for it.
C24_StrippedTwice ==
    /\ pc = "module_ok"
    /\ unit.at = 2
    /\ custom = <<>> /\ ScannedCustom # <<>>
    /\ out.func = [types |-> <<U32(0)>>]

\* C25: the custom list holds exactly the sections of kind 0 met so far, one
\* entry for each, in the order they stand in the input.
C25_CustomInInputOrder ==
    /\ custom = ScannedCustom
    /\ Len(custom) = Cardinality({i \in 1..Len(frames) : Kind(i) = 0})

\* C25: a Skeleton with two Custom sections of different contents.
C25_TwoCustoms ==
    /\ pc = "skeleton_ok"
    /\ Len(custom) = 2
    /\ SubSeq(input, custom[1].off + 1, custom[1].off + custom[1].len) = <<0>>
    /\ SubSeq(input, custom[2].off + 1, custom[2].off + custom[2].len) = <<1>>

\* C25: a Skeleton with a Custom section before and one after another section.
C25_CustomAroundSection ==
    /\ pc = "skeleton_ok"
    /\ Len(frames) = 3
    /\ Kind(1) = 0 /\ Kind(2) # 0 /\ Kind(3) = 0
    /\ Len(custom) = 2

\* The present sections whose decoder returns before the end of their bytes.
ShortSections ==
    {k \in 1..11 :
        /\ skel[Slots[k]] # None
        /\ parse(SectionTypes[k], SectionContent(Slots[k]), 0).ok
        /\ parse(SectionTypes[k], SectionContent(Slots[k]), 0).pos
               < Len(SectionContent(Slots[k]))}

\* C26: parse_module fails when the decoder of a present section stops before
\* the end of the section's bytes, with the not-all-consumed error when that
\* section is the first to fail; a Module is returned only when every present
\* section was consumed to its last byte; and no section decoder ends beyond
\* the bytes of its section.
C26_SectionsConsumedInFull ==
    ModuleDone =>
        /\ ShortSections # {} => pc = "module_err"
        /\ \A k \in ShortSections :
               (\A j \in FailingSections : k <= j) =>
                   err = "Not all of the contents was consumed."
        /\ \A k \in 1..11 :
               skel[Slots[k]] # None =>
                   LET r == parse(SectionTypes[k], SectionContent(Slots[k]), 0)
                   IN  /\ r.pos <= Len(SectionContent(Slots[k]))
                       /\ pc = "module_ok" =>
                              r.ok /\ r.pos = Len(SectionContent(Slots[k]))

\* C26: a Function section declaring no function with two bytes after the
\* count has been refused.
C26_ByteLeftOver ==
    /\ pc = "module_err"
    /\ err = "Not all of the contents was consumed."
    /\ skel.func # None
    /\ SectionContent("func") = <<0, 0, 0>>
    /\ 3 \in ShortSections

\* The step is an iteration of the loop of parse_skeleton.
ScanIteration == pc = "scan" /\ pos < Len(input)

\* C27: an iteration of the scan loop fails or moves the cursor on by at
\* least one byte, the cursor never moves back, the iterations of one call
\* number at most the bytes after the header, and the call ends with a
\* Skeleton or an error.
C27_ScanTerminates ==
    /\ [][ScanIteration =>
              /\ pc' = "skeleton_err" \/ pos' >= pos + 1
              /\ Len(frames) + 1 <= Len(input) - 8]_vars
    /\ [][pos' >= pos /\ Len(frames') >= Len(frames)]_vars
    /\ <>(pc \in {"skeleton_ok", "skeleton_err"})

\* C27: the loop has ended with a Skeleton after two iterations over four
\* bytes, one iteration for every two bytes.
C27_TwoIterations ==
    /\ pc = "skeleton_ok"
    /\ Len(frames) = 2
    /\ Len(input) - 8 = 4
    /\ pos = Len(input)

MeteringFailedStages ==
    {"skeleton_err", "validate_err", "metering_err", "compile_err"}

\* A step of instantiate_with_metering keeps the order of the stages.
MeteringStagesInOrder ==
    /\ pc \notin MeteringFailedStages \cup {"artifact"}
    /\ err = "none"
    /\ pc' \in {"skeleton_ok", "skeleton_err"} => pc \in ParsingStages
    /\ pc' \in {"validated", "validate_err"} => pc = "skeleton_ok"
    /\ pc' \in {"metered", "metering_err"} => pc = "validated"
    /\ pc' \in {"artifact", "compile_err"} => pc = "metered"

\* C28: instantiate_with_metering runs parse_skeleton, validate_module,
\* inject_metering and compile in this order, each on the success of the one
\* before: metering goes into a validated module only, the module compiled
\* is the metered one, and a failure of any stage ends the call with its
\* error and nothing compiled or returned.
C28_MeteringBeforeCompile ==
    /\ [][MeteringStagesInOrder]_vars
    /\ [](pc \in MeteringFailedStages <=> err # "none")
    /\ [](pc \in MeteringFailedStages => out = <<>>)
    /\ [](pc = "metered" =>
              /\ DOMAIN out = {"metered"}
              /\ validate_module(input, skel, TRUE) = Ok(0, out.metered))
    /\ [](DOMAIN out = {"artifact", "supports_upgrade"} <=> pc = "artifact")
    /\ [](pc = "artifact" =>
              /\ out.supports_upgrade = FALSE
              /\ DOMAIN out.artifact.artifact = {"metered"}
              /\ validate_module(input, skel, TRUE)
                     = Ok(0, out.artifact.artifact.metered))

\* C28: an artifact of a metered module with a Function section of one entry
\* has been returned.
C28_MeteredArtifact ==
    /\ pc = "artifact"
    /\ out.artifact.artifact.metered.func = [types |-> <<U32(0)>>]

\* C28: the injection has failed on a validated module.
C28_InjectionFailed ==
    /\ pc = "metering_err"
    /\ err = "metering error"
    /\ parse_module(input, skel).ok

\* The Block, Loop and If levels the decoder is inside of.
Levels ==
    Cardinality({i \in 1..Len(unit.calls) :
                     unit.calls[i] \in {"block", "then", "else"}})

C29_DeepestNestDecoded ==
    /\ unit.family = "nest"
    /\ unit.at = MaxNest
    /\ unit.done /\ unit.res.ok
    /\ unit.res.pos = Len(unit.bytes)

\* The decoder is about to read an else marker.
AtElseMarker ==
    /\ unit.family = "nest"
    /\ pc = "nested"
    /\ pos < Len(unit.bytes)
    /\ unit.bytes[pos + 1] = 5

\* The loop that reads the next byte is the then-loop of an If.
InThenLoop == unit.calls[Len(unit.calls)] = "then"

\* C30: the else marker is taken as such only by the then-loop of an If, for
\* that If, which goes on with its else-branch; read by any other loop (of a
\* body or constant expression, of a Block or Loop, of an else-branch) it
\* ends the decoding with the unsupported-instruction error, the error of
\* the recursive decoder on these bytes.
C30_ElseOnlyInThenBranch ==
    [][AtElseMarker =>
           IF InThenLoop
           THEN /\ ~unit'.done
                /\ pos' = pos + 1
                /\ unit'.calls = SubSeq(unit.calls, 1, Len(unit.calls) - 1)
                                     \o <<"else", "sequence">>
           ELSE /\ unit'.done
                /\ unit'.res = Err(pos + 1, "Unsupported instruction")
                /\ unit'.res.err = parse("Expression", unit.bytes, 0).err
                /\ ~parse("Expression", unit.bytes, 0).ok]_vars

\* C30: a second else marker, in the else-branch of an If, has been refused.
C30_SecondElseRefused ==
    /\ unit.family = "nest"
    /\ unit.done
    /\ SubSeq(unit.bytes, 1, pos) = <<4, 64, 5, 5>>
    /\ unit.res = Err(4, "Unsupported instruction")

\* C30: an else marker directly inside a Loop inside the then-branch of an If
\* has been refused.
C30_ElseInLoopRefused ==
    /\ unit.family = "nest"
    /\ unit.done
    /\ SubSeq(unit.bytes, 1, pos) = <<4, 64, 3, 64, 5>>
    /\ unit.res = Err(5, "Unsupported instruction")

\* C30: an else marker at the top level of an expression has been refused.
C30_ElseAtTopRefused ==
    /\ unit.family = "nest"
    /\ unit.done
    /\ SubSeq(unit.bytes, 1, pos) = <<5>>
    /\ unit.res = Err(1, "Unsupported instruction")

\* C30: an If inside a Block has taken its else marker and been decoded.
C30_ElseTaken ==
    /\ unit.family = "nest"
    /\ unit.done /\ unit.res.ok
    /\ unit.bytes = <<2, 64, 4, 64, 5, 65, 0, END, END, END>>

====
